---- MODULE Spec2Model ----
(***************************************************************************)
(* Message ingestion and delivery pipeline of guilderia/backend:           *)
(* crates/core/database/src/models/messages/model.rs.                      *)
(*                                                                         *)
(* Option<T> is a sequence of length 0 (None) or 1 (Some(v)).              *)
(* A String is a sequence of tokens; its len() is the sum of the byte      *)
(* lengths of its tokens.                                                  *)
(***************************************************************************)
EXTENDS Integers, Sequences, FiniteSets, TLC

VARIABLES
    messages,   \* the messages collection: message id -> Message
    nonces,     \* the idempotency guard's cache of consumed nonces
    uploads,    \* the upload store: attachment id -> id of the owning message, 0 if unused
    events,     \* what the last handler call published on the event bus, in order
    tasks,      \* what the last handler call enqueued on the background queues, in order
    last,       \* the last handler invocation: request, result and collaborator calls
    pending     \* the requests in flight: concurrent task -> what it has done so far

vars == <<messages, nonces, uploads, events, tasks, last, pending>>

---------------------------------------------------------------------------
(* Bounds of the model *)

\* limits.message_length of the caller's tier
MessageLength == 16
\* limits.message_attachments of the caller's tier
MessageAttachments == 2
\* config.features.limits.global.message_embeds
MessageEmbeds == 1
\* config.features.limits.global.message_replies
MessageReplies == 2
\* config.features.limits.global.message_reactions
MessageReactions == 2
\* number of messages one behaviour may create
MaxNew == 2
\* number of requests one concurrent task may run in a behaviour
MaxRuns == 2

---------------------------------------------------------------------------
(* Option *)

None == <<>>
Some(v) == <<v>>
IsNone(o) == Len(o) = 0
IsSome(o) == Len(o) = 1
Unwrap(o) == o[1]

RECURSIVE SumSeq(_)
SumSeq(s) == IF Len(s) = 0 THEN 0 ELSE Head(s) + SumSeq(Tail(s))

Range(s) == {s[i] : i \in 1..Len(s)}

---------------------------------------------------------------------------
(* The world the pipeline runs in *)

SystemAuthor == "00000000000000000000000000"

\* Channel values: kind, server (for server channels), recipients (DM / group)
Channels ==
    [ dm    |-> [kind |-> "DirectMessage", server |-> None,       recipients |-> {"u1", "u2"}],
      grp   |-> [kind |-> "Group",         server |-> None,       recipients |-> {"u1", "u2", "u3"}],
      txt   |-> [kind |-> "TextChannel",   server |-> Some("s1"), recipients |-> {}],
      vc    |-> [kind |-> "VoiceChannel",  server |-> Some("s1"), recipients |-> {}],
      saved |-> [kind |-> "SavedMessages", server |-> None,       recipients |-> {}] ]

ChannelIds == DOMAIN Channels

\* server s1: its roles, its members, and the members who can see its channels
ServerRoles == {"r1"}
ServerMembers == {"u1", "u2", "u3"}
CanSeeChannel == {"u1", "u2"}

\* emoji ids: Emoji::can_use accepts the ids of Emojis and refuses UnknownEmoji
Emojis == 1..(MessageReactions + 1)
UnknownEmoji == 0
Users == {"u1", "u2"}

---------------------------------------------------------------------------
(* Strings: tokens and their byte lengths *)

TokLen(t) ==
    CASE t = "a"         -> 1
      [] t = "@everyone" -> 9
      [] t = "@online"   -> 7
      [] OTHER           -> 5      \* "<@u1>", "<%r1>", ...

StrLen(s) == SumSeq([i \in 1..Len(s) |-> TokLen(s[i])])

UserToken == [u1 |-> "<@u1>", u2 |-> "<@u2>", u3 |-> "<@u3>", u9 |-> "<@u9>"]
RoleToken == [r1 |-> "<%r1>", r9 |-> "<%r9>"]

\* guilderia_parser::parse_message: user mentions, role mentions and the
\* everyone / online tokens of a text; anything else is not a mention
parse_message(raw_content) ==
    [ user_mentions     |-> {u \in DOMAIN UserToken : UserToken[u] \in Range(raw_content)},
      role_mentions     |-> {r \in DOMAIN RoleToken : RoleToken[r] \in Range(raw_content)},
      mentions_everyone |-> "@everyone" \in Range(raw_content),
      mentions_online   |-> "@online" \in Range(raw_content) ]

MessageResultsDefault ==
    [ user_mentions |-> {}, role_mentions |-> {},
      mentions_everyone |-> FALSE, mentions_online |-> FALSE ]

---------------------------------------------------------------------------
(* Flag codec *)

\* v0::MessageFlags
SuppressNotifications == 0
MentionsEveryone == 1
MentionsOnline == 2

Pow2(n) == 2 ^ n

\* bitwise and of two u32 values
RECURSIVE BitAnd(_, _)
BitAnd(a, b) ==
    IF a = 0 \/ b = 0 THEN 0
    ELSE (a % 2) * (b % 2) + 2 * BitAnd(a \div 2, b \div 2)

\* MessageFlagsValue::has_value
has_value(v, bit) == LET mask == Pow2(bit) IN BitAnd(v, mask) = mask

\* MessageFlagsValue::has
has(v, flag) == has_value(v, flag)

\* MessageFlagsValue::set_value
set_value(v, bit, toggle) ==
    IF toggle
    THEN (IF has_value(v, bit) THEN v ELSE v + Pow2(bit))
    ELSE (IF has_value(v, bit) THEN v - Pow2(bit) ELSE v)

\* MessageFlagsValue::set
set(v, flag, toggle) == set_value(v, flag, toggle)

---------------------------------------------------------------------------
(* Results *)

Ok == [type |-> "Ok", arg |-> None]
Err(t) == [type |-> t, arg |-> None]
ErrWith(t, a) == [type |-> t, arg |-> Some(a)]

Call(op, arg) == [op |-> op, arg |-> arg]

\* MessageAuthor: the id of each kind of author
AuthorId ==
    [User |-> "u1", Bot |-> "b1", Webhook |-> "w1", System |-> SystemAuthor]

\* an IndexMap / a collection with no entries
EmptyMap == [k \in {} |-> {}]

\* Interactions::default
InteractionsDefault == [reactions |-> None, restrict_reactions |-> FALSE]

\* impl Default for Message
MessageDefault ==
    [ id |-> 0, nonce |-> None, channel |-> "", author |-> "", webhook |-> None,
      content |-> None, attachments |-> None, embeds |-> None, mentions |-> None,
      role_mentions |-> None, replies |-> None, reactions |-> EmptyMap,
      interactions |-> InteractionsDefault, flags |-> None, pinned |-> None ]

---------------------------------------------------------------------------
(* Message::create_from_api, stage by stage.  A stage takes the state of    *)
(* the call so far and returns it unchanged once the call has returned.    *)

\* Message::validate_sum
validate_sum(content, embeds, max_length) ==
    LET running_total ==
            (IF IsSome(content) THEN StrLen(Unwrap(content)) ELSE 0)
            + SumSeq([i \in 1..Len(embeds) |->
                        IF IsSome(embeds[i].description)
                        THEN StrLen(Unwrap(embeds[i].description)) ELSE 0])
    IN IF running_total <= max_length THEN Ok ELSE Err("PayloadTooLarge")

\* IdempotencyKey::consume_nonce looking the nonce up without registering it
consume_nonce_LookupOnly(cache, key, v) ==
    IF IsSome(v)
    THEN IF Unwrap(v) \in cache
         THEN [res |-> Err("DuplicateRequest"), cache |-> cache, key |-> key]
         ELSE [res |-> Ok, cache |-> cache, key |-> Unwrap(v)]
    ELSE [res |-> Ok, cache |-> cache, key |-> key]

\* IdempotencyKey::consume_nonce on the guard's cache
consume_nonce(cache, key, v) ==
    IF IsSome(v)
    THEN IF Unwrap(v) \in cache
         THEN [res |-> Err("DuplicateRequest"), cache |-> cache, key |-> key]
         ELSE [res |-> Ok, cache |-> cache \cup {Unwrap(v)}, key |-> Unwrap(v)]
    ELSE [res |-> Ok, cache |-> cache, key |-> key]

\* the state of a call on entry
Enter(rq, message_id, db, cache, store) ==
    [ res |-> Ok, calls |-> <<>>,
      db |-> db, cache |-> cache, store |-> store, events |-> <<>>, tasks |-> <<>>,
      key |-> rq.key,
      mentions_everyone |-> FALSE, mentions_online |-> FALSE,
      suppress_notifications |-> FALSE,
      user_mentions |-> {}, role_mentions |-> {}, replies |-> {},
      message |-> [MessageDefault EXCEPT !.id = message_id] ]

\* lines 277-281
StageValidateSum(st, rq) ==
    IF st.res # Ok THEN st
    ELSE [st EXCEPT !.res = validate_sum(rq.content,
                                         IF IsSome(rq.embeds) THEN Unwrap(rq.embeds) ELSE <<>>,
                                         MessageLength)]

\* lines 283-286 with the guard's error passed on as it is
StageConsumeNonce_Propagate(st, rq) ==
    IF st.res # Ok THEN st
    ELSE LET r == consume_nonce(st.cache, st.key, rq.nonce)
         IN [st EXCEPT !.calls = Append(@, Call("consume_nonce", 0)),
                       !.cache = r.cache,
                       !.key = r.key,
                       !.res = r.res]

\* lines 283-286
StageConsumeNonce(st, rq) ==
    IF st.res # Ok THEN st
    ELSE LET r == consume_nonce(st.cache, st.key, rq.nonce)
         IN [st EXCEPT !.calls = Append(@, Call("consume_nonce", 0)),
                       !.cache = r.cache,
                       !.key = r.key,
                       !.res = IF r.res = Ok THEN Ok ELSE Err("InvalidOperation")]

\* Option<&T>::is_none_or(|v| v.is_empty())
is_none_or_empty(o) == IsNone(o) \/ Len(Unwrap(o)) = 0

\* lines 288-294 looking at the text alone
StageEmpty_ContentOnly(st, rq) ==
    IF st.res # Ok THEN st
    ELSE IF is_none_or_empty(rq.content)
         THEN [st EXCEPT !.res = Err("EmptyMessage")]
         ELSE st

\* lines 288-294
StageEmpty(st, rq) ==
    IF st.res # Ok THEN st
    ELSE IF is_none_or_empty(rq.content)
            /\ is_none_or_empty(rq.attachments)
            /\ is_none_or_empty(rq.embeds)
         THEN [st EXCEPT !.res = Err("EmptyMessage")]
         ELSE st

\* user.as_ref().is_some_and(|u| u.bot.as_ref().is_none())
IsNotBot(rq) == rq.author = "User"

\* lines 298-324 with the raw value masked to its three bits instead of refused
StageFlags_Mask(st, rq) ==
    IF st.res # Ok THEN st
    ELSE IF IsNone(rq.flags) THEN st
    ELSE LET raw_flags == Unwrap(rq.flags) % 8
             suppress_notifications == has(raw_flags, SuppressNotifications)
             mentions_everyone == rq.allow_mentions /\ has(raw_flags, MentionsEveryone)
             mentions_online == rq.allow_mentions /\ has(raw_flags, MentionsOnline)
         IN [st EXCEPT
               !.suppress_notifications = suppress_notifications,
               !.mentions_everyone = mentions_everyone,
               !.mentions_online = mentions_online,
               !.res = IF IsNotBot(rq) /\ (mentions_everyone \/ mentions_online)
                       THEN Err("IsNotBot")
                       ELSE IF mentions_everyone /\ mentions_online
                       THEN Err("InvalidFlagValue")
                       ELSE Ok]

\* lines 298-324 with the two-bits check ahead of the bot check
StageFlags_BothFirst(st, rq) ==
    IF st.res # Ok THEN st
    ELSE IF IsNone(rq.flags) THEN st
    ELSE LET raw_flags == Unwrap(rq.flags)
             suppress_notifications == has(raw_flags, SuppressNotifications)
             mentions_everyone == rq.allow_mentions /\ has(raw_flags, MentionsEveryone)
             mentions_online == rq.allow_mentions /\ has(raw_flags, MentionsOnline)
         IN IF raw_flags > 7 THEN [st EXCEPT !.res = Err("InvalidProperty")]
            ELSE [st EXCEPT
                    !.suppress_notifications = suppress_notifications,
                    !.mentions_everyone = mentions_everyone,
                    !.mentions_online = mentions_online,
                    !.res = IF mentions_everyone /\ mentions_online
                            THEN Err("InvalidFlagValue")
                            ELSE IF IsNotBot(rq) /\ (mentions_everyone \/ mentions_online)
                            THEN Err("IsNotBot")
                            ELSE Ok]

\* lines 298-324 taking the mention bits of the raw flags whatever the caller may do
StageFlags_IgnoreAllow(st, rq) ==
    IF st.res # Ok THEN st
    ELSE IF IsNone(rq.flags) THEN st
    ELSE LET raw_flags == Unwrap(rq.flags)
             suppress_notifications == has(raw_flags, SuppressNotifications)
             mentions_everyone == has(raw_flags, MentionsEveryone)
             mentions_online == has(raw_flags, MentionsOnline)
         IN IF raw_flags > 7 THEN [st EXCEPT !.res = Err("InvalidProperty")]
            ELSE [st EXCEPT
                    !.suppress_notifications = suppress_notifications,
                    !.mentions_everyone = mentions_everyone,
                    !.mentions_online = mentions_online,
                    !.res = IF IsNotBot(rq) /\ (mentions_everyone \/ mentions_online)
                            THEN Err("IsNotBot")
                            ELSE IF mentions_everyone /\ mentions_online
                            THEN Err("InvalidFlagValue")
                            ELSE Ok]

\* lines 298-324
StageFlags(st, rq) ==
    IF st.res # Ok THEN st
    ELSE IF IsNone(rq.flags) THEN st
    ELSE LET raw_flags == Unwrap(rq.flags)
             suppress_notifications == has(raw_flags, SuppressNotifications)
             mentions_everyone == rq.allow_mentions /\ has(raw_flags, MentionsEveryone)
             mentions_online == rq.allow_mentions /\ has(raw_flags, MentionsOnline)
         IN IF raw_flags > 7 THEN [st EXCEPT !.res = Err("InvalidProperty")]
            ELSE [st EXCEPT
                    !.suppress_notifications = suppress_notifications,
                    !.mentions_everyone = mentions_everyone,
                    !.mentions_online = mentions_online,
                    !.res = IF IsNotBot(rq) /\ (mentions_everyone \/ mentions_online)
                            THEN Err("IsNotBot")
                            ELSE IF mentions_everyone /\ mentions_online
                            THEN Err("InvalidFlagValue")
                            ELSE Ok]

\* lines 333-346 refusing an absent whitelist only
StageInteractions_AbsentOnly(st, rq) ==
    IF st.res # Ok THEN st
    ELSE IF IsNone(rq.interactions) THEN st
    ELSE LET interactions == Unwrap(rq.interactions)
         IN IF interactions.restrict_reactions /\ IsNone(interactions.reactions)
            THEN [st EXCEPT !.res = Err("InvalidProperty")]
            ELSE st

\* lines 333-346
StageInteractions(st, rq) ==
    IF st.res # Ok THEN st
    ELSE IF IsNone(rq.interactions) THEN st
    ELSE LET interactions == Unwrap(rq.interactions)
             disallowed == IF IsSome(interactions.reactions)
                           THEN Unwrap(interactions.reactions) = {}
                           ELSE TRUE
         IN IF interactions.restrict_reactions /\ disallowed
            THEN [st EXCEPT !.res = Err("InvalidProperty")]
            ELSE st

\* lines 348-368
StageConstruct(st, rq) ==
    IF st.res # Ok THEN st
    ELSE [st EXCEPT
            !.message.channel = rq.channel,
            !.message.interactions =
                IF IsSome(rq.interactions) THEN Unwrap(rq.interactions)
                ELSE InteractionsDefault,
            !.message.author = AuthorId[rq.author],
            !.message.webhook = IF rq.author = "Webhook" THEN Some("w1") ELSE None,
            !.message.flags = rq.flags]

\* lines 372-395 without the pruning of unknown roles
StageParse_NoPrune(st, rq) ==
    IF st.res # Ok THEN st
    ELSE LET parsed == IF IsSome(rq.content) THEN parse_message(Unwrap(rq.content))
                       ELSE MessageResultsDefault
         IN [st EXCEPT
               !.user_mentions = parsed.user_mentions,
               !.role_mentions = parsed.role_mentions,
               !.mentions_everyone = parsed.mentions_everyone \/ st.mentions_everyone,
               !.mentions_online = parsed.mentions_online \/ st.mentions_online]

\* lines 372-395
StageParse(st, rq) ==
    IF st.res # Ok THEN st
    ELSE LET parsed == IF IsSome(rq.content) THEN parse_message(Unwrap(rq.content))
                       ELSE MessageResultsDefault
             allow_mass_mentions == rq.allow_mentions /\ rq.mass_mentions_enabled
             server_id == Channels[rq.channel].server
             prune == allow_mass_mentions /\ IsSome(server_id)
                      /\ parsed.role_mentions # {}
             s1 == [st EXCEPT
                     !.user_mentions = parsed.user_mentions,
                     !.role_mentions = parsed.role_mentions,
                     !.mentions_everyone = parsed.mentions_everyone \/ st.mentions_everyone,
                     !.mentions_online = parsed.mentions_online \/ st.mentions_online]
         IN IF ~prune THEN s1
            ELSE IF rq.fault = "fetch_server"
            THEN [s1 EXCEPT !.calls = Append(@, Call("fetch_server", 0)),
                            !.res = Err("Panic")]
            ELSE [s1 EXCEPT !.calls = Append(@, Call("fetch_server", 0)),
                            !.role_mentions = {r \in @ : r \in ServerRoles}]

\* lines 397-438 without the MentionEveryone check
StageMassMention_RolesOnly(st, rq) ==
    IF st.res # Ok THEN st
    ELSE LET signal == st.mentions_everyone \/ st.mentions_online \/ st.role_mentions # {}
         IN IF ~rq.mass_mentions_enabled /\ signal
            THEN [st EXCEPT !.mentions_everyone = FALSE,
                            !.mentions_online = FALSE,
                            !.role_mentions = {}]
            ELSE IF ~signal \/ rq.author = "Webhook" THEN st
            ELSE IF rq.author = "System" THEN [st EXCEPT !.res = Err("InvalidProperty")]
            ELSE LET s1 == [st EXCEPT !.calls = Append(@, Call("calculate_channel_permissions", 0))]
                 IN IF st.role_mentions # {} /\ "MentionRoles" \notin rq.perms
                    THEN [s1 EXCEPT !.res = ErrWith("MissingPermission", "MentionRoles")]
                    ELSE s1

\* lines 397-438 without the feature switch
StageMassMention_NoSwitch(st, rq) ==
    IF st.res # Ok THEN st
    ELSE LET signal == st.mentions_everyone \/ st.mentions_online \/ st.role_mentions # {}
         IN IF ~signal \/ rq.author = "Webhook" THEN st
            ELSE IF rq.author = "System" THEN [st EXCEPT !.res = Err("InvalidProperty")]
            ELSE LET s1 == [st EXCEPT !.calls = Append(@, Call("calculate_channel_permissions", 0))]
                 IN IF (st.mentions_everyone \/ st.mentions_online)
                       /\ "MentionEveryone" \notin rq.perms
                    THEN [s1 EXCEPT !.res = ErrWith("MissingPermission", "MentionEveryone")]
                    ELSE IF st.role_mentions # {} /\ "MentionRoles" \notin rq.perms
                    THEN [s1 EXCEPT !.res = ErrWith("MissingPermission", "MentionRoles")]
                    ELSE s1

\* lines 397-438 with the system author bypassing the check like a webhook
StageMassMention_SystemBypass(st, rq) ==
    IF st.res # Ok THEN st
    ELSE LET signal == st.mentions_everyone \/ st.mentions_online \/ st.role_mentions # {}
         IN IF ~rq.mass_mentions_enabled /\ signal
            THEN [st EXCEPT !.mentions_everyone = FALSE,
                            !.mentions_online = FALSE,
                            !.role_mentions = {}]
            ELSE IF ~signal \/ rq.author \in {"Webhook", "System"} THEN st
            ELSE LET s1 == [st EXCEPT !.calls = Append(@, Call("calculate_channel_permissions", 0))]
                 IN IF (st.mentions_everyone \/ st.mentions_online)
                       /\ "MentionEveryone" \notin rq.perms
                    THEN [s1 EXCEPT !.res = ErrWith("MissingPermission", "MentionEveryone")]
                    ELSE IF st.role_mentions # {} /\ "MentionRoles" \notin rq.perms
                    THEN [s1 EXCEPT !.res = ErrWith("MissingPermission", "MentionRoles")]
                    ELSE s1

\* lines 397-438
StageMassMention(st, rq) ==
    IF st.res # Ok THEN st
    ELSE LET signal == st.mentions_everyone \/ st.mentions_online \/ st.role_mentions # {}
         IN IF ~rq.mass_mentions_enabled /\ signal
            THEN [st EXCEPT !.mentions_everyone = FALSE,
                            !.mentions_online = FALSE,
                            !.role_mentions = {}]
            ELSE IF ~signal \/ rq.author = "Webhook" THEN st
            ELSE IF rq.author = "System" THEN [st EXCEPT !.res = Err("InvalidProperty")]
            ELSE LET s1 == [st EXCEPT !.calls = Append(@, Call("calculate_channel_permissions", 0))]
                 IN IF (st.mentions_everyone \/ st.mentions_online)
                       /\ "MentionEveryone" \notin rq.perms
                    THEN [s1 EXCEPT !.res = ErrWith("MissingPermission", "MentionEveryone")]
                    ELSE IF st.role_mentions # {} /\ "MentionRoles" \notin rq.perms
                    THEN [s1 EXCEPT !.res = ErrWith("MissingPermission", "MentionRoles")]
                    ELSE s1

\* Database::fetch_message
fetch_message(db, id, fault) ==
    IF fault = "fetch_message"
    THEN [res |-> ErrWith("DatabaseError", "find_one"), message |-> MessageDefault]
    ELSE IF id \in DOMAIN db THEN [res |-> Ok, message |-> db[id]]
    ELSE [res |-> Err("NotFound"), message |-> MessageDefault]

\* lines 449-474 with an unspecified fail_if_not_exists read as false
RECURSIVE ReplyLoop_LenientDefault(_, _, _)
ReplyLoop_LenientDefault(entries, st, rq) ==
    IF Len(entries) = 0 \/ st.res # Ok THEN st
    ELSE LET intent == Head(entries)
             got == fetch_message(st.db, intent.id, rq.fault)
             s1 == [st EXCEPT !.calls = Append(@, Call("fetch_message", intent.id))]
             fail_if_not_exists == IF IsSome(intent.fail_if_not_exists)
                                   THEN Unwrap(intent.fail_if_not_exists) ELSE FALSE
         IN IF got.res = Ok
            THEN ReplyLoop_LenientDefault(Tail(entries),
                           [s1 EXCEPT
                              !.user_mentions =
                                  IF intent.mention /\ rq.allow_mentions
                                  THEN @ \cup {got.message.author} ELSE @,
                              !.replies = @ \cup {got.message.id}],
                           rq)
            ELSE IF got.res.type # "NotFound" \/ fail_if_not_exists
            THEN [s1 EXCEPT !.res = got.res]
            ELSE ReplyLoop_LenientDefault(Tail(entries), s1, rq)

\* lines 449-474: the loop over the reply intents
RECURSIVE ReplyLoop(_, _, _)
ReplyLoop(entries, st, rq) ==
    IF Len(entries) = 0 \/ st.res # Ok THEN st
    ELSE LET intent == Head(entries)
             got == fetch_message(st.db, intent.id, rq.fault)
             s1 == [st EXCEPT !.calls = Append(@, Call("fetch_message", intent.id))]
             fail_if_not_exists == IF IsSome(intent.fail_if_not_exists)
                                   THEN Unwrap(intent.fail_if_not_exists) ELSE TRUE
         IN IF got.res = Ok
            THEN ReplyLoop(Tail(entries),
                           [s1 EXCEPT
                              !.user_mentions =
                                  IF intent.mention /\ rq.allow_mentions
                                  THEN @ \cup {got.message.author} ELSE @,
                              !.replies = @ \cup {got.message.id}],
                           rq)
            ELSE IF got.res.type # "NotFound" \/ fail_if_not_exists
            THEN [s1 EXCEPT !.res = got.res]
            ELSE ReplyLoop(Tail(entries), s1, rq)

\* lines 440-475 refusing a list of exactly the maximum
StageReplies_OffByOne(st, rq) ==
    IF st.res # Ok THEN st
    ELSE IF IsNone(rq.replies) THEN st
    ELSE LET entries == Unwrap(rq.replies)
         IN IF Len(entries) >= MessageReplies
            THEN [st EXCEPT !.res = ErrWith("TooManyReplies", MessageReplies)]
            ELSE ReplyLoop(entries, st, rq)

\* lines 440-475
StageReplies(st, rq) ==
    IF st.res # Ok THEN st
    ELSE IF IsNone(rq.replies) THEN st
    ELSE LET entries == Unwrap(rq.replies)
         IN IF Len(entries) > MessageReplies
            THEN [st EXCEPT !.res = ErrWith("TooManyReplies", MessageReplies)]
            ELSE ReplyLoop(entries, st, rq)

\* lines 477-520 without the channel-level visibility pass
StageNarrow_MembersOnly(st, rq) ==
    IF st.res # Ok THEN st
    ELSE IF st.user_mentions = {} THEN st
    ELSE LET channel == Channels[rq.channel]
         IN CASE channel.kind \in {"DirectMessage", "Group"} ->
                    [st EXCEPT !.user_mentions = {m \in @ : m \in channel.recipients},
                               !.role_mentions = {}]
              [] channel.kind \in {"TextChannel", "VoiceChannel"} ->
                    LET s1 == [st EXCEPT !.calls = Append(@, Call("fetch_members", 0))]
                    IN IF rq.fault = "fetch_members"
                       THEN [s1 EXCEPT !.res = Err("InternalError")]
                       ELSE [s1 EXCEPT !.user_mentions = {m \in @ : m \in ServerMembers}]
              [] OTHER -> [st EXCEPT !.user_mentions = {}]

\* lines 477-520 leaving the mentions of a saved messages channel alone
StageNarrow_KeepSaved(st, rq) ==
    IF st.res # Ok THEN st
    ELSE IF st.user_mentions = {} THEN st
    ELSE LET channel == Channels[rq.channel]
         IN CASE channel.kind \in {"DirectMessage", "Group"} ->
                    [st EXCEPT !.user_mentions = {m \in @ : m \in channel.recipients},
                               !.role_mentions = {}]
              [] channel.kind \in {"TextChannel", "VoiceChannel"} ->
                    LET s1 == [st EXCEPT !.calls = Append(@, Call("fetch_members", 0))]
                        valid_mentions == {m \in st.user_mentions : m \in ServerMembers}
                    IN IF rq.fault = "fetch_members"
                       THEN [s1 EXCEPT !.res = Err("InternalError")]
                       ELSE IF valid_mentions = {}
                       THEN [s1 EXCEPT !.user_mentions = {}]
                       ELSE [s1 EXCEPT
                               !.calls = Append(@, Call("members_can_see_channel", 0)),
                               !.user_mentions = {m \in valid_mentions : m \in CanSeeChannel}]
              [] OTHER -> st

\* lines 477-520
StageNarrow(st, rq) ==
    IF st.res # Ok THEN st
    ELSE IF st.user_mentions = {} THEN st
    ELSE LET channel == Channels[rq.channel]
         IN CASE channel.kind \in {"DirectMessage", "Group"} ->
                    [st EXCEPT !.user_mentions = {m \in @ : m \in channel.recipients},
                               !.role_mentions = {}]
              [] channel.kind \in {"TextChannel", "VoiceChannel"} ->
                    LET s1 == [st EXCEPT !.calls = Append(@, Call("fetch_members", 0))]
                        valid_mentions == {m \in st.user_mentions : m \in ServerMembers}
                    IN IF rq.fault = "fetch_members"
                       THEN [s1 EXCEPT !.res = Err("InternalError")]
                       ELSE IF valid_mentions = {}
                       THEN [s1 EXCEPT !.user_mentions = {}]
                       ELSE [s1 EXCEPT
                               !.calls = Append(@, Call("members_can_see_channel", 0)),
                               !.user_mentions = {m \in valid_mentions : m \in CanSeeChannel}]
              [] OTHER -> [st EXCEPT !.user_mentions = {}]

\* lines 522-547 storing the three sets whether or not they are empty
StageFinalize_AlwaysPresent(st, rq) ==
    IF st.res # Ok THEN st
    ELSE LET flag_value ==
                set(set(set(0, SuppressNotifications, st.suppress_notifications),
                        MentionsEveryone, st.mentions_everyone),
                    MentionsOnline, st.mentions_online)
         IN [st EXCEPT
               !.message.mentions = Some(st.user_mentions),
               !.message.role_mentions = Some(st.role_mentions),
               !.message.replies = Some(st.replies),
               !.message.flags = Some(flag_value)]

\* lines 522-547
StageFinalize(st, rq) ==
    IF st.res # Ok THEN st
    ELSE LET flag_value ==
                set(set(set(0, SuppressNotifications, st.suppress_notifications),
                        MentionsEveryone, st.mentions_everyone),
                    MentionsOnline, st.mentions_online)
         IN [st EXCEPT
               !.message.mentions = IF st.user_mentions # {} THEN Some(st.user_mentions) ELSE @,
               !.message.role_mentions =
                   IF st.role_mentions # {} THEN Some(st.role_mentions) ELSE @,
               !.message.replies = IF st.replies # {} THEN Some(st.replies) ELSE @,
               !.message.flags = Some(flag_value)]

\* File::use_attachment on the upload store
use_attachment(store, id, parent) ==
    IF id \in DOMAIN store /\ store[id] = 0
    THEN [res |-> Ok, store |-> [store EXCEPT ![id] = parent], file |-> [id |-> id]]
    ELSE [res |-> Err("NotFound"), store |-> store, file |-> [id |-> id]]

\* lines 571-574: the loop over the attachment ids
RECURSIVE AttachmentLoop(_, _, _)
AttachmentLoop(ids, st, attachments) ==
    IF Len(ids) = 0 \/ st.res # Ok
    THEN [st |-> st, attachments |-> attachments]
    ELSE LET got == use_attachment(st.store, Head(ids), st.message.id)
             s1 == [st EXCEPT !.calls = Append(@, Call("use_attachment", Head(ids))),
                              !.store = got.store]
         IN IF got.res = Ok
            THEN AttachmentLoop(Tail(ids), s1, Append(attachments, got.file))
            ELSE [st |-> [s1 EXCEPT !.res = got.res], attachments |-> attachments]

\* Message::attach_sendable_embed
attach_sendable_embed(st, embed) ==
    LET got == IF IsSome(embed.media)
               THEN use_attachment(st.store, Unwrap(embed.media), st.message.id)
               ELSE [res |-> Ok, store |-> st.store, file |-> [id |-> ""]]
        s1 == IF IsSome(embed.media)
              THEN [st EXCEPT !.calls = Append(@, Call("use_attachment", Unwrap(embed.media))),
                              !.store = got.store]
              ELSE st
        text == [description |-> embed.description,
                 media |-> IF IsSome(embed.media) THEN Some(got.file) ELSE None]
    IN IF got.res # Ok THEN [s1 EXCEPT !.res = got.res]
       ELSE [s1 EXCEPT !.message.embeds =
                          IF IsSome(@) THEN Some(Append(Unwrap(@), text))
                          ELSE Some(<<text>>)]

\* lines 580-583: the loop over the embeds
RECURSIVE EmbedLoop(_, _)
EmbedLoop(embeds, st) ==
    IF Len(embeds) = 0 \/ st.res # Ok THEN st
    ELSE EmbedLoop(Tail(embeds), attach_sendable_embed(st, Head(embeds)))

\* lines 549-583 counting the embeds after the attachments have been bound
StageBind_LateEmbedCheck(st, rq) ==
    IF st.res # Ok THEN st
    ELSE IF IsSome(rq.attachments) /\ Len(Unwrap(rq.attachments)) > MessageAttachments
    THEN [st EXCEPT !.res = ErrWith("TooManyAttachments", MessageAttachments)]
    ELSE LET bound == AttachmentLoop(IF IsSome(rq.attachments)
                                     THEN Unwrap(rq.attachments) ELSE <<>>,
                                     st, <<>>)
             s1 == IF bound.st.res = Ok /\ Len(bound.attachments) > 0
                   THEN [bound.st EXCEPT !.message.attachments = Some(bound.attachments)]
                   ELSE bound.st
         IN IF s1.res = Ok /\ IsSome(rq.embeds) /\ Len(Unwrap(rq.embeds)) > MessageEmbeds
            THEN [s1 EXCEPT !.res = ErrWith("TooManyEmbeds", MessageEmbeds)]
            ELSE EmbedLoop(IF IsSome(rq.embeds) THEN Unwrap(rq.embeds) ELSE <<>>, s1)

\* lines 549-583
StageBind(st, rq) ==
    IF st.res # Ok THEN st
    ELSE IF IsSome(rq.attachments) /\ Len(Unwrap(rq.attachments)) > MessageAttachments
    THEN [st EXCEPT !.res = ErrWith("TooManyAttachments", MessageAttachments)]
    ELSE IF IsSome(rq.embeds) /\ Len(Unwrap(rq.embeds)) > MessageEmbeds
    THEN [st EXCEPT !.res = ErrWith("TooManyEmbeds", MessageEmbeds)]
    ELSE LET bound == AttachmentLoop(IF IsSome(rq.attachments)
                                     THEN Unwrap(rq.attachments) ELSE <<>>,
                                     st, <<>>)
             s1 == IF bound.st.res = Ok /\ Len(bound.attachments) > 0
                   THEN [bound.st EXCEPT !.message.attachments = Some(bound.attachments)]
                   ELSE bound.st
         IN EmbedLoop(IF IsSome(rq.embeds) THEN Unwrap(rq.embeds) ELSE <<>>, s1)

---------------------------------------------------------------------------
(* Sending *)

\* Message::has_suppressed_notifications
has_suppressed_notifications(m) ==
    IF IsSome(m.flags)
    THEN BitAnd(Unwrap(m.flags), SuppressNotifications) = SuppressNotifications
    ELSE FALSE

\* Message::contains_mass_push_mention
contains_mass_push_mention(m) ==
    LET ping == IF IsSome(m.flags) THEN has(Unwrap(m.flags), MentionsEveryone) ELSE FALSE
    IN ping \/ IsSome(m.role_mentions)

Event(type, m) == [type |-> type, id |-> m.id, channel |-> m.channel]
Task(kind, m) == [kind |-> kind, id |-> m.id, channel |-> m.channel]

Publish(st, type) ==
    [st EXCEPT !.calls = Append(@, Call("publish", type)),
               !.events = Append(@, Event(type, st.message))]

Queue(st, kind) ==
    [st EXCEPT !.calls = Append(@, Call("queue", kind)),
               !.tasks = Append(@, Task(kind, st.message))]

\* Message::send_without_notifications going on after a failed insert
send_without_notifications_NoReturn(st, fault, is_dm, generate_embeds, mentions_elsewhere) ==
    LET s0 == [st EXCEPT !.calls = Append(@, Call("insert_message", st.message.id))]
        s1 == IF fault = "insert_message"
              THEN [s0 EXCEPT !.res = ErrWith("DatabaseError", "insert_one")]
              ELSE [s0 EXCEPT !.db = (st.message.id :> st.message) @@ @]
        s2 == Publish(s1, "Message")
        s3 == Queue(s2, "last_message_id")
        s4 == IF ~mentions_elsewhere /\ IsSome(st.message.mentions)
              THEN Queue(s3, "ack_mentions") ELSE s3
        s5 == IF generate_embeds /\ IsSome(st.message.content)
              THEN Queue(s4, "process_embeds") ELSE s4
    IN s5

\* Message::send_without_notifications
send_without_notifications(st, fault, is_dm, generate_embeds, mentions_elsewhere) ==
    LET s0 == [st EXCEPT !.calls = Append(@, Call("insert_message", st.message.id))]
    IN IF fault = "insert_message"
       THEN [s0 EXCEPT !.res = ErrWith("DatabaseError", "insert_one")]
       ELSE LET s1 == [s0 EXCEPT !.db = (st.message.id :> st.message) @@ @]
                s2 == Publish(s1, "Message")
                s3 == Queue(s2, "last_message_id")
                s4 == IF ~mentions_elsewhere /\ IsSome(st.message.mentions)
                      THEN Queue(s3, "ack_mentions") ELSE s3
                s5 == IF generate_embeds /\ IsSome(st.message.content)
                      THEN Queue(s4, "process_embeds") ELSE s4
            IN s5

\* Message::send
send(st, fault, channel, generate_embeds) ==
    LET s1 == send_without_notifications(st, fault, channel.kind = "DirectMessage",
                                         generate_embeds, TRUE)
    IN IF s1.res # Ok THEN s1
       ELSE IF ~has_suppressed_notifications(st.message)
               /\ (IsSome(st.message.mentions) \/ contains_mass_push_mention(st.message))
       THEN Queue(s1, "ack_push")
       ELSE s1

\* lines 585-596 echoing the nonce of the request instead of the guard's key
StageSend_EchoRequest(st, rq) ==
    IF st.res # Ok THEN st
    ELSE LET s1 == [st EXCEPT !.message.content = rq.content,
                              !.message.nonce = rq.nonce]
         IN send(s1, rq.fault, Channels[rq.channel], rq.generate_embeds)

\* lines 585-596
StageSend(st, rq) ==
    IF st.res # Ok THEN st
    ELSE LET s1 == [st EXCEPT !.message.content = rq.content,
                              !.message.nonce = Some(st.key)]
         IN send(s1, rq.fault, Channels[rq.channel], rq.generate_embeds)

\* lines 275-294 with the idempotency guard consulted before the size gate
UpToEmpty_GuardFirst(rq, message_id, db, cache, store) ==
    StageEmpty(
     StageValidateSum(
      StageConsumeNonce(Enter(rq, message_id, db, cache, store), rq), rq), rq)

\* lines 275-294: the size gate, the idempotency guard and the emptiness check
UpToEmpty(rq, message_id, db, cache, store) ==
    StageEmpty(
     StageConsumeNonce(
      StageValidateSum(Enter(rq, message_id, db, cache, store), rq), rq), rq)

\* lines 275-368 with the flags check ahead of the emptiness check
UpToConstruct_FlagsFirst(rq, message_id, db, cache, store) ==
    StageConstruct(
     StageInteractions(
      StageEmpty(
       StageFlags(
        StageConsumeNonce(
         StageValidateSum(Enter(rq, message_id, db, cache, store), rq), rq), rq), rq), rq), rq)

\* lines 275-368: every gate before mention resolution
UpToConstruct(rq, message_id, db, cache, store) ==
    StageConstruct(
     StageInteractions(
      StageFlags(UpToEmpty(rq, message_id, db, cache, store), rq), rq), rq)

\* lines 275-438: up to and including the mass mention permission check
UpToMassMention(rq, message_id, db, cache, store) ==
    StageMassMention(
     StageParse(UpToConstruct(rq, message_id, db, cache, store), rq), rq)

\* lines 275-583: everything before the message is sent
UpToBind(rq, message_id, db, cache, store) ==
    StageBind(
     StageFinalize(
      StageNarrow(
       StageReplies(UpToMassMention(rq, message_id, db, cache, store), rq), rq), rq), rq)

\* Message::create_from_api sending the message before binding its uploads
create_from_api_SendBeforeBind(rq, message_id, db, cache, store) ==
    StageBind(
     StageSend(
      StageFinalize(
       StageNarrow(
        StageReplies(UpToMassMention(rq, message_id, db, cache, store), rq), rq), rq), rq), rq)

\* Message::create_from_api: the call's final state
create_from_api(rq, message_id, db, cache, store) ==
    StageSend(UpToBind(rq, message_id, db, cache, store), rq)

\* lines 275-286: Message::create_from_api up to the idempotency guard
Intake(rq, message_id, db, cache, store) ==
    StageConsumeNonce(StageValidateSum(Enter(rq, message_id, db, cache, store), rq), rq)

\* lines 288-596: Message::create_from_api after the idempotency guard, on the
\* database and the upload store as they are by then
Finish(st, rq, db, store) ==
    StageSend(
     StageBind(
      StageFinalize(
       StageNarrow(
        StageReplies(
         StageMassMention(
          StageParse(
           StageConstruct(
            StageInteractions(
             StageFlags(
              StageEmpty([st EXCEPT !.db = db, !.store = store], rq),
              rq), rq), rq), rq), rq), rq), rq), rq), rq), rq)

---------------------------------------------------------------------------
(* Reactions *)

\* Interactions::can_use letting every emoji through
can_use_Open(interactions, emoji) == TRUE

\* Interactions::can_use
can_use(interactions, emoji) ==
    IF interactions.restrict_reactions
    THEN IF IsSome(interactions.reactions)
         THEN emoji \in Unwrap(interactions.reactions)
         ELSE FALSE
    ELSE TRUE

\* Emoji::can_use
emoji_can_use(emoji) == emoji \in Emojis

\* Database::add_reaction: add the user to the emoji's set, creating the key
db_add_reaction(db, id, emoji, user) ==
    IF id \notin DOMAIN db THEN db
    ELSE LET r == db[id].reactions
         IN [db EXCEPT ![id].reactions =
                (emoji :> ((IF emoji \in DOMAIN r THEN r[emoji] ELSE {}) \cup {user})) @@ r]

\* Database::remove_reaction: pull the user out of the emoji's set
db_remove_reaction(db, id, emoji, user) ==
    IF id \notin DOMAIN db \/ emoji \notin DOMAIN db[id].reactions THEN db
    ELSE [db EXCEPT ![id].reactions[emoji] = @ \ {user}]

\* Database::clear_reaction: unset the emoji's key
db_clear_reaction(db, id, emoji) ==
    IF id \notin DOMAIN db THEN db
    ELSE LET r == db[id].reactions
         IN [db EXCEPT ![id].reactions = [e \in DOMAIN r \ {emoji} |-> r[e]]]

\* the state of a reaction call on entry
EnterReaction(db) == [res |-> Ok, calls |-> <<>>, db |-> db, events |-> <<>>]

PublishReaction(st, type, self, user, emoji) ==
    [st EXCEPT !.calls = Append(@, Call("publish", type)),
               !.events = Append(@, [type |-> type, id |-> self.id,
                                     channel |-> self.channel, user |-> user,
                                     emoji |-> emoji])]

\* Message::add_reaction refusing every reaction once the limit is reached
add_reaction_FullIsFull(self, db, user, emoji) ==
    LET st == EnterReaction(db)
    IN IF Cardinality(DOMAIN self.reactions) >= MessageReactions
       THEN [st EXCEPT !.res = Err("InvalidOperation")]
       ELSE IF ~can_use(self.interactions, emoji)
       THEN [st EXCEPT !.res = Err("InvalidOperation")]
       ELSE LET s1 == [st EXCEPT !.calls = Append(@, Call("Emoji::can_use", emoji))]
            IN IF ~emoji_can_use(emoji)
               THEN [s1 EXCEPT !.res = Err("InvalidOperation")]
               ELSE LET s2 == PublishReaction(s1, "MessageReact", self, user, emoji)
                    IN [s2 EXCEPT !.calls = Append(@, Call("add_reaction", emoji)),
                                  !.db = db_add_reaction(db, self.id, emoji, user)]

\* Message::add_reaction asking whether the emoji is usable before the whitelist
add_reaction_UsableFirst(self, db, user, emoji) ==
    LET st == EnterReaction(db)
    IN IF Cardinality(DOMAIN self.reactions) >= MessageReactions
          /\ emoji \notin DOMAIN self.reactions
       THEN [st EXCEPT !.res = Err("InvalidOperation")]
       ELSE LET s1 == [st EXCEPT !.calls = Append(@, Call("Emoji::can_use", emoji))]
            IN IF ~emoji_can_use(emoji)
               THEN [s1 EXCEPT !.res = Err("InvalidOperation")]
               ELSE IF ~can_use(self.interactions, emoji)
               THEN [s1 EXCEPT !.res = Err("InvalidOperation")]
               ELSE LET s2 == PublishReaction(s1, "MessageReact", self, user, emoji)
                    IN [s2 EXCEPT !.calls = Append(@, Call("add_reaction", emoji)),
                                  !.db = db_add_reaction(db, self.id, emoji, user)]

\* Message::add_reaction
add_reaction(self, db, user, emoji) ==
    LET st == EnterReaction(db)
    IN IF Cardinality(DOMAIN self.reactions) >= MessageReactions
          /\ emoji \notin DOMAIN self.reactions
       THEN [st EXCEPT !.res = Err("InvalidOperation")]
       ELSE IF ~can_use(self.interactions, emoji)
       THEN [st EXCEPT !.res = Err("InvalidOperation")]
       ELSE LET s1 == [st EXCEPT !.calls = Append(@, Call("Emoji::can_use", emoji))]
            IN IF ~emoji_can_use(emoji)
               THEN [s1 EXCEPT !.res = Err("InvalidOperation")]
               ELSE LET s2 == PublishReaction(s1, "MessageReact", self, user, emoji)
                    IN [s2 EXCEPT !.calls = Append(@, Call("add_reaction", emoji)),
                                  !.db = db_add_reaction(db, self.id, emoji, user)]

\* Message::remove_reaction persisting a single-reactor removal in every case
remove_reaction_PullOnly(self, db, user, emoji) ==
    LET st == EnterReaction(db)
    IN IF emoji \notin DOMAIN self.reactions THEN [st EXCEPT !.res = Err("NotFound")]
       ELSE IF user \notin self.reactions[emoji] THEN [st EXCEPT !.res = Err("NotFound")]
       ELSE LET s1 == PublishReaction(st, "MessageUnreact", self, user, emoji)
            IN [s1 EXCEPT !.calls = Append(@, Call("remove_reaction", emoji)),
                          !.db = db_remove_reaction(db, self.id, emoji, user)]

\* Message::remove_reaction without the check that the user is a reactor
remove_reaction_AnyUser(self, db, user, emoji) ==
    LET st == EnterReaction(db)
    IN IF emoji \notin DOMAIN self.reactions THEN [st EXCEPT !.res = Err("NotFound")]
       ELSE LET empty == Cardinality(self.reactions[emoji]) = 1
                s1 == PublishReaction(st, "MessageUnreact", self, user, emoji)
            IN IF empty
               THEN [s1 EXCEPT !.calls = Append(@, Call("clear_reaction", emoji)),
                               !.db = db_clear_reaction(db, self.id, emoji)]
               ELSE [s1 EXCEPT !.calls = Append(@, Call("remove_reaction", emoji)),
                               !.db = db_remove_reaction(db, self.id, emoji, user)]

\* Message::remove_reaction
remove_reaction(self, db, user, emoji) ==
    LET st == EnterReaction(db)
    IN IF emoji \notin DOMAIN self.reactions THEN [st EXCEPT !.res = Err("NotFound")]
       ELSE IF user \notin self.reactions[emoji] THEN [st EXCEPT !.res = Err("NotFound")]
       ELSE LET empty == Cardinality(self.reactions[emoji]) = 1
                s1 == PublishReaction(st, "MessageUnreact", self, user, emoji)
            IN IF empty
               THEN [s1 EXCEPT !.calls = Append(@, Call("clear_reaction", emoji)),
                               !.db = db_clear_reaction(db, self.id, emoji)]
               ELSE [s1 EXCEPT !.calls = Append(@, Call("remove_reaction", emoji)),
                               !.db = db_remove_reaction(db, self.id, emoji, user)]

\* Message::clear_reaction
clear_reaction(self, db, emoji) ==
    LET s1 == PublishReaction(EnterReaction(db), "MessageRemoveReaction", self, "", emoji)
    IN [s1 EXCEPT !.calls = Append(@, Call("clear_reaction", emoji)),
                  !.db = db_clear_reaction(db, self.id, emoji)]

---------------------------------------------------------------------------
(* Deleting *)

\* Database::fetch_messages_by_id: the stored messages whose id is among ids
fetch_messages_by_id(db, ids) == {id \in Range(ids) : id \in DOMAIN db}

\* Database::delete_messages: remove the messages of the channel whose id is among ids
delete_messages(db, channel, ids) ==
    [id \in {i \in DOMAIN db : ~(i \in ids /\ db[i].channel = channel)} |-> db[id]]

\* the ids of the files attached to a message
FileIds(m) ==
    IF IsSome(m.attachments) THEN {file.id : file \in Range(Unwrap(m.attachments))} ELSE {}

\* Database::mark_attachments_as_deleted: an upload marked as deleted keeps its
\* owner, negated
mark_attachments_as_deleted(store, file_ids) ==
    [f \in DOMAIN store |-> IF f \in file_ids /\ store[f] > 0 THEN 0 - store[f] ELSE store[f]]

\* the cascade of Database::delete_messages: the attachments of the messages of
\* the channel whose id is among ids are marked as deleted
delete_messages_attachments(db, store, channel, ids) ==
    mark_attachments_as_deleted(store,
        UNION {FileIds(db[i]) : i \in {j \in DOMAIN db : j \in ids /\ db[j].channel = channel}})

\* Database::delete_message
delete_message(db, id) == [i \in DOMAIN db \ {id} |-> db[i]]

\* the state of a delete call on entry
EnterDelete(db, store) ==
    [res |-> Ok, calls |-> <<>>, db |-> db, events |-> <<>>, store |-> store]

\* Message::delete going on after the attachments could not be marked
delete_IgnoreMarkFailure(self, db, store, fault) ==
    LET st == EnterDelete(db, store)
        file_ids == FileIds(self)
        s1 == IF file_ids # {}
              THEN [st EXCEPT
                      !.calls = Append(@, Call("mark_attachments_as_deleted", file_ids)),
                      !.store = IF fault = "mark_attachments_as_deleted" THEN @
                                ELSE mark_attachments_as_deleted(@, file_ids)]
              ELSE st
        s2 == [s1 EXCEPT !.calls = Append(@, Call("delete_message", self.id))]
    IN IF fault = "delete_message"
       THEN [s2 EXCEPT !.res = ErrWith("DatabaseError", "delete_one")]
       ELSE [s2 EXCEPT
               !.db = delete_message(db, self.id),
               !.calls = Append(@, Call("publish", "MessageDelete")),
               !.events = Append(@, [type |-> "MessageDelete", id |-> self.id,
                                     channel |-> self.channel])]

\* Message::delete
delete(self, db, store, fault) ==
    LET st == EnterDelete(db, store)
        file_ids == FileIds(self)
        s1 == IF file_ids # {}
              THEN IF fault = "mark_attachments_as_deleted"
                   THEN [st EXCEPT
                           !.calls = Append(@, Call("mark_attachments_as_deleted", file_ids)),
                           !.res = ErrWith("DatabaseError", "update_many")]
                   ELSE [st EXCEPT
                           !.calls = Append(@, Call("mark_attachments_as_deleted", file_ids)),
                           !.store = mark_attachments_as_deleted(@, file_ids)]
              ELSE st
    IN IF s1.res # Ok THEN s1
       ELSE LET s2 == [s1 EXCEPT !.calls = Append(@, Call("delete_message", self.id))]
            IN IF fault = "delete_message"
               THEN [s2 EXCEPT !.res = ErrWith("DatabaseError", "delete_one")]
               ELSE [s2 EXCEPT
                       !.db = delete_message(db, self.id),
                       !.calls = Append(@, Call("publish", "MessageDelete")),
                       !.events = Append(@, [type |-> "MessageDelete", id |-> self.id,
                                             channel |-> self.channel])]

\* Message::bulk_delete announcing every message it fetched
bulk_delete_NoFilter(db, store, channel, ids, fault) ==
    LET st == [EnterDelete(db, store) EXCEPT !.calls = <<Call("fetch_messages_by_id", ids)>>]
    IN IF fault = "fetch_messages_by_id"
       THEN [st EXCEPT !.res = ErrWith("DatabaseError", "find")]
       ELSE LET valid_ids == fetch_messages_by_id(db, ids)
                s1 == [st EXCEPT !.calls = Append(@, Call("delete_messages", valid_ids))]
            IN IF fault = "delete_messages"
               THEN [s1 EXCEPT !.res = ErrWith("DatabaseError", "delete_many")]
               ELSE [s1 EXCEPT
                       !.db = delete_messages(db, channel, valid_ids),
                       !.store = delete_messages_attachments(db, store, channel, valid_ids),
                       !.calls = Append(@, Call("publish", "BulkMessageDelete")),
                       !.events = Append(@, [type |-> "BulkMessageDelete",
                                             channel |-> channel, ids |-> valid_ids])]

\* Message::bulk_delete; the ids of the event are in the order of the database's answer
bulk_delete(db, store, channel, ids, fault) ==
    LET st == [EnterDelete(db, store) EXCEPT !.calls = <<Call("fetch_messages_by_id", ids)>>]
    IN IF fault = "fetch_messages_by_id"
       THEN [st EXCEPT !.res = ErrWith("DatabaseError", "find")]
       ELSE LET valid_ids == {id \in fetch_messages_by_id(db, ids) : db[id].channel = channel}
                s1 == [st EXCEPT !.calls = Append(@, Call("delete_messages", valid_ids))]
            IN IF fault = "delete_messages"
               THEN [s1 EXCEPT !.res = ErrWith("DatabaseError", "delete_many")]
               ELSE [s1 EXCEPT
                       !.db = delete_messages(db, channel, valid_ids),
                       !.store = delete_messages_attachments(db, store, channel, valid_ids),
                       !.calls = Append(@, Call("publish", "BulkMessageDelete")),
                       !.events = Append(@, [type |-> "BulkMessageDelete",
                                             channel |-> channel, ids |-> valid_ids])]

---------------------------------------------------------------------------
(* The requests of the model *)

Repeat(x, n) == [i \in 1..n |-> x]

Flags == 0..15

Contents ==
    { None, Some(<<>>), Some(<<"a">>), Some(<<"@everyone">>), Some(<<"@online">>),
      Some(<<"@everyone", "@online">>), Some(<<"<@u2>">>), Some(<<"<@u3>", "<@u9>">>),
      Some(<<"<%r1>">>), Some(<<"<%r9>">>), Some(<<"<@u2>", "<%r1>">>),
      Some(Repeat("a", MessageLength)), Some(Repeat("a", MessageLength + 1)) }

\* v0::SendableEmbed: description, media, and whether validate() accepts it
SendableEmbed(description, media, valid) ==
    [description |-> description, media |-> media, valid |-> valid]

EmbedLists ==
    { None, Some(<<>>),
      Some(<<SendableEmbed(None, None, TRUE)>>),
      Some(<<SendableEmbed(Some(<<"a">>), Some("f2"), TRUE)>>),
      Some(<<SendableEmbed(Some(<<>>), Some("f9"), TRUE)>>),
      Some(<<SendableEmbed(None, None, FALSE)>>),
      Some(<<SendableEmbed(Some(Repeat("a", MessageLength)), None, TRUE)>>),
      Some(Repeat(SendableEmbed(None, None, TRUE), MessageEmbeds + 1)),
      Some(Repeat(SendableEmbed(None, Some("f2"), TRUE), MessageEmbeds + 1)) }

AttachmentLists ==
    { None, Some(<<>>), Some(<<"f1">>), Some(<<"f9">>), Some(<<"f1", "f9">>),
      Some(Repeat("f1", MessageAttachments + 1)) }

InteractionsValues ==
    { None } \cup
    { Some([reactions |-> r, restrict_reactions |-> b]) :
        r \in {None, Some({}), Some({1})}, b \in BOOLEAN }

\* v0::ReplyIntent
ReplyIntent(id, mention, fail_if_not_exists) ==
    [id |-> id, mention |-> mention, fail_if_not_exists |-> fail_if_not_exists]

Intents ==
    { ReplyIntent(1, TRUE, None), ReplyIntent(2, TRUE, Some(FALSE)),
      ReplyIntent(9, TRUE, None), ReplyIntent(9, FALSE, Some(TRUE)),
      ReplyIntent(9, TRUE, Some(FALSE)) }

ReplyLists ==
    { None, Some(<<>>) }
    \cup { Some(<<i>>) : i \in Intents }
    \cup { Some(<<i, j>>) : i, j \in Intents }
    \cup { Some(Repeat(i, MessageReplies)) : i \in Intents }
    \cup { Some(Repeat(i, MessageReplies + 1)) : i \in Intents }

Authors == {"User", "Bot", "Webhook", "System"}
Permissions == SUBSET {"MentionEveryone", "MentionRoles"}
Faults == {"none", "fetch_message", "fetch_members", "fetch_server", "insert_message"}

BaseRequest ==
    [ channel |-> "txt", author |-> "User", perms |-> {}, allow_mentions |-> TRUE,
      generate_embeds |-> TRUE, mass_mentions_enabled |-> TRUE, fault |-> "none",
      key |-> "k0",
      content |-> Some(<<"a">>), attachments |-> None, embeds |-> None, flags |-> None,
      interactions |-> None, replies |-> None, nonce |-> None ]

\* intake: sizes, emptiness, flags, interactions
IntakeRequests ==
    { [BaseRequest EXCEPT !.content = c, !.attachments = a, !.embeds = e,
                          !.flags = f, !.interactions = i] :
        c \in {None, Some(<<>>), Some(<<"a">>), Some(Repeat("a", MessageLength + 1))},
        a \in {None, Some(<<>>), Some(<<"f1">>)},
        e \in {None, Some(<<>>), Some(<<SendableEmbed(None, None, TRUE)>>)},
        f \in {None, Some(0), Some(1), Some(7), Some(8), Some(9)},
        i \in {None} \cup {Some([reactions |-> r, restrict_reactions |-> TRUE]) :
                             r \in {None, Some({}), Some({1})}} }

\* requests that carry a nonce
NonceRequests ==
    { [BaseRequest EXCEPT !.nonce = Some("n1"), !.content = c, !.attachments = a,
                          !.flags = f] :
        c \in {None, Some(<<"a">>), Some(Repeat("a", MessageLength)),
               Some(Repeat("a", MessageLength + 1))},
        a \in {None, Some(<<"f1">>)}, f \in {None, Some(8)} }

\* every interactions value against the other gates
InteractionRequests ==
    { [BaseRequest EXCEPT !.interactions = i, !.content = c, !.flags = f,
                          !.channel = ch, !.author = a] :
        i \in InteractionsValues, c \in {None, Some(<<"a">>), Some(<<"@everyone">>)},
        f \in {None, Some(8)}, ch \in {"txt", "dm"}, a \in {"User", "System"} }

\* flags and text mentions against authors, permissions and the feature switch
MentionRequests ==
    { [BaseRequest EXCEPT !.content = c, !.flags = f, !.author = a, !.perms = p,
                          !.allow_mentions = am, !.mass_mentions_enabled = mm] :
        c \in { Some(<<"a">>), Some(<<"@everyone">>), Some(<<"@online">>),
                Some(<<"@everyone", "@online">>),
                Some(<<"<%r1>">>), Some(<<"<%r9>">>), Some(<<"<@u2>", "<%r1>">>) },
        f \in {None, Some(2), Some(4), Some(6)},
        a \in Authors, p \in Permissions, am \in BOOLEAN, mm \in BOOLEAN }

\* every flags value against every text, for an author that holds every permission
FlagRequests ==
    { [BaseRequest EXCEPT !.content = c, !.flags = Some(f), !.author = a,
                          !.perms = {"MentionEveryone", "MentionRoles"}] :
        c \in Contents, f \in Flags, a \in {"User", "Bot"} }

\* every text in every kind of channel
ChannelRequests ==
    { [BaseRequest EXCEPT !.content = c, !.channel = ch, !.author = a, !.perms = p] :
        c \in Contents, ch \in ChannelIds, a \in {"User", "Webhook"},
        p \in {{}, {"MentionEveryone", "MentionRoles"}} }

\* replies and mention narrowing in every kind of channel
ReplyRequests ==
    { [BaseRequest EXCEPT !.replies = r, !.channel = ch, !.content = c,
                          !.allow_mentions = am, !.author = "Webhook"] :
        r \in ReplyLists, ch \in ChannelIds,
        c \in {Some(<<"a">>), Some(<<"<@u3>", "<@u9>">>)},
        am \in BOOLEAN }

\* collaborator failures
FaultRequests ==
    { [BaseRequest EXCEPT !.fault = x, !.replies = r, !.content = c,
                          !.perms = {"MentionRoles"}] :
        x \in Faults, r \in {None, Some(<<ReplyIntent(9, FALSE, Some(FALSE))>>),
                             Some(<<ReplyIntent(1, TRUE, None)>>)},
        c \in {Some(<<"a">>), Some(<<"<@u2>">>), Some(<<"<%r1>">>),
               Some(<<"<%r1>", "<%r9>">>)} }

\* attachments and embeds
BindRequests ==
    { [BaseRequest EXCEPT !.attachments = a, !.embeds = e, !.content = c,
                          !.generate_embeds = g, !.fault = x] :
        a \in AttachmentLists, e \in EmbedLists,
        c \in {None, Some(<<>>), Some(<<"a">>)}, g \in BOOLEAN,
        x \in {"none", "insert_message"} }

Requests ==
    IntakeRequests \cup NonceRequests \cup InteractionRequests \cup MentionRequests
    \cup FlagRequests \cup ChannelRequests \cup ReplyRequests \cup FaultRequests
    \cup BindRequests

\* what a client may submit after a request: the same request again, or, when
\* it carried a nonce, the same request under another nonce or another text
Resubmissions(rq) ==
    {rq} \cup (IF IsSome(rq.nonce)
               THEN { [rq EXCEPT !.nonce = Some("n2")],
                      [rq EXCEPT !.content = Some(<<"a", "a">>)] }
               ELSE {})

---------------------------------------------------------------------------
(* The state machine *)

NoCall ==
    [ op |-> "none", rq |-> BaseRequest, res |-> Ok, calls |-> <<>>,
      message |-> MessageDefault, key |-> "",
      before |-> [messages |-> EmptyMap, nonces |-> {}, uploads |-> EmptyMap] ]

Snapshot == [messages |-> messages, nonces |-> nonces, uploads |-> uploads]

\* no request is in flight
NoTasks == <<>>

\* messages that exist before the behaviour starts
StoredMessage(id, channel, author) ==
    [MessageDefault EXCEPT !.id = id, !.channel = channel, !.author = author,
                           !.content = Some(<<"a">>), !.flags = Some(0)]

InitMessages ==
    (1 :> StoredMessage(1, "txt", "u2")) @@ (2 :> StoredMessage(2, "dm", "u3"))

InitUploads == ("f1" :> 0) @@ ("f2" :> 0)

\* Ulid::new(): ids are time-ordered, a new one is larger than every stored one
NewIds == {10 + i : i \in 1..MaxNew}
NextId == 10 + Cardinality(DOMAIN messages \cap NewIds) + 1

Init ==
    /\ messages = InitMessages
    /\ nonces = {}
    /\ uploads = InitUploads
    /\ events = <<>>
    /\ tasks = <<>>
    /\ last = NoCall
    /\ pending = NoTasks

\* one call of Message::create_from_api
Send ==
    \E rq \in (IF last.op = "none" THEN Requests ELSE Resubmissions(last.rq)) :
        LET st == create_from_api(rq, NextId, messages, nonces, uploads)
        IN /\ NextId \in NewIds
           /\ messages' = st.db
           /\ nonces' = st.cache
           /\ uploads' = st.store
           /\ events' = st.events
           /\ tasks' = st.tasks
           /\ last' = [ op |-> "create_from_api", rq |-> rq, res |-> st.res,
                        calls |-> st.calls, message |-> st.message, key |-> st.key,
                        before |-> Snapshot ]
           /\ UNCHANGED pending

\* the dedup window of a consumed nonce ends
Expire ==
    \E n \in nonces :
        /\ nonces' = nonces \ {n}
        /\ UNCHANGED <<messages, uploads, events, tasks, last, pending>>

Next == Send \/ Expire

Spec == Init /\ [][Next]_vars

---------------------------------------------------------------------------
(* The reaction handlers on one stored message *)

\* the interaction policies a stored message may carry
Policies ==
    { InteractionsDefault,
      [reactions |-> Some({1}), restrict_reactions |-> FALSE],
      [reactions |-> Some({1, 2}), restrict_reactions |-> TRUE] }

InitReact ==
    /\ \E p \in Policies :
          messages = (1 :> [StoredMessage(1, "txt", "u2") EXCEPT !.interactions = p])
    /\ nonces = {}
    /\ uploads = InitUploads
    /\ events = <<>>
    /\ tasks = <<>>
    /\ last = NoCall
    /\ pending = NoTasks

ReactionCall(op, id, user, emoji, st) ==
    /\ messages' = st.db
    /\ events' = st.events
    /\ tasks' = <<>>
    /\ last' = [ op |-> op, rq |-> [id |-> id, user |-> user, emoji |-> emoji],
                 res |-> st.res, calls |-> st.calls, message |-> messages[id],
                 key |-> "", before |-> Snapshot ]
    /\ UNCHANGED <<nonces, uploads, pending>>

\* one call of Message::add_reaction on a message loaded from the database
AddReaction ==
    \E id \in DOMAIN messages, user \in Users, emoji \in Emojis \cup {UnknownEmoji} :
        ReactionCall("add_reaction", id, user, emoji,
                     add_reaction(messages[id], messages, user, emoji))

\* one call of Message::remove_reaction on a message loaded from the database
RemoveReaction ==
    \E id \in DOMAIN messages, user \in Users, emoji \in Emojis \cup {UnknownEmoji} :
        ReactionCall("remove_reaction", id, user, emoji,
                     remove_reaction(messages[id], messages, user, emoji))

\* one call of Message::clear_reaction on a message loaded from the database
ClearReaction ==
    \E id \in DOMAIN messages, emoji \in Emojis \cup {UnknownEmoji} :
        ReactionCall("clear_reaction", id, "", emoji,
                     clear_reaction(messages[id], messages, emoji))

NextReact == AddReaction \/ RemoveReaction \/ ClearReaction

SpecReact == InitReact /\ [][NextReact]_vars

---------------------------------------------------------------------------
(* Bulk deletion over two channels *)

\* the id lists of a bulk delete: ids of the channel, of the other channel and
\* of no message, alone, mixed and repeated
IdLists ==
    {<<>>} \cup {<<a>> : a \in {1, 2, 3, 9}} \cup {<<a, b>> : a, b \in {1, 2, 3, 9}}
    \cup {<<1, 2, 3>>, <<1, 2, 9>>, <<1, 3, 9>>, <<2, 3, 9>>, <<9, 1, 1>>}

DeleteFaults == {"none", "fetch_messages_by_id", "delete_messages"}

\* a stored message with its attachments
WithFiles(m, files) == [m EXCEPT !.attachments = Some([i \in 1..Len(files) |-> [id |-> files[i]]])]

\* three messages: one of txt with two files, one of dm with one file, one of
\* txt with none; a fourth upload is unused
InitDelete ==
    /\ messages = (1 :> WithFiles(StoredMessage(1, "txt", "u2"), <<"f1", "f2">>))
                  @@ (2 :> WithFiles(StoredMessage(2, "dm", "u3"), <<"f3">>))
                  @@ (3 :> StoredMessage(3, "txt", "u3"))
    /\ nonces = {}
    /\ uploads = ("f1" :> 1) @@ ("f2" :> 1) @@ ("f3" :> 2) @@ ("f4" :> 0)
    /\ events = <<>>
    /\ tasks = <<>>
    /\ last = NoCall
    /\ pending = NoTasks

\* one call of Message::bulk_delete
BulkDelete ==
    \E channel \in {"txt", "dm"}, ids \in IdLists, fault \in DeleteFaults :
        LET st == bulk_delete(messages, uploads, channel, ids, fault)
        IN /\ messages' = st.db
           /\ uploads' = st.store
           /\ events' = st.events
           /\ tasks' = <<>>
           /\ last' = [ op |-> "bulk_delete",
                        rq |-> [channel |-> channel, ids |-> ids, fault |-> fault],
                        res |-> st.res, calls |-> st.calls, message |-> MessageDefault,
                        key |-> "", before |-> Snapshot ]
           /\ UNCHANGED <<nonces, pending>>

DeleteOneFaults == {"none", "mark_attachments_as_deleted", "delete_message"}

\* one call of Message::delete on a message loaded from the database
Delete ==
    \E id \in DOMAIN messages, fault \in DeleteOneFaults :
        LET st == delete(messages[id], messages, uploads, fault)
        IN /\ messages' = st.db
           /\ uploads' = st.store
           /\ events' = st.events
           /\ tasks' = <<>>
           /\ last' = [ op |-> "delete",
                        rq |-> [channel |-> messages[id].channel, ids |-> <<id>>,
                                fault |-> fault],
                        res |-> st.res, calls |-> st.calls, message |-> messages[id],
                        key |-> "", before |-> Snapshot ]
           /\ UNCHANGED <<nonces, pending>>

NextDelete == BulkDelete \/ Delete

SpecDelete == InitDelete /\ [][NextDelete]_vars

---------------------------------------------------------------------------
(* Message::send and Message::send_without_notifications called on a      *)
(* message that was built elsewhere (a system message, a webhook message) *)

\* the messages handed to send: with and without text, mentions and flags
Drafts ==
    { [MessageDefault EXCEPT !.channel = ch, !.author = SystemAuthor, !.content = c,
                             !.mentions = m, !.role_mentions = r, !.flags = f] :
        ch \in {"txt", "dm"}, c \in {None, Some(<<>>), Some(<<"a">>)},
        m \in {None, Some({"u2"})}, r \in {None, Some({"r1"})},
        f \in {None} \cup {Some(x) : x \in 0..7} }

DirectCall(op, message, generate_embeds, mentions_elsewhere, fault) ==
    LET entry == [Enter(BaseRequest, NextId, messages, nonces, uploads)
                    EXCEPT !.message = [message EXCEPT !.id = NextId]]
        channel == Channels[message.channel]
        st == IF op = "send"
              THEN send(entry, fault, channel, generate_embeds)
              ELSE send_without_notifications(entry, fault,
                                              channel.kind = "DirectMessage",
                                              generate_embeds, mentions_elsewhere)
    IN /\ NextId \in NewIds
       /\ messages' = st.db
       /\ events' = st.events
       /\ tasks' = st.tasks
       /\ last' = [ op |-> op,
                    rq |-> [message |-> message, generate_embeds |-> generate_embeds,
                            mentions_elsewhere |-> mentions_elsewhere, fault |-> fault],
                    res |-> st.res, calls |-> st.calls, message |-> st.message,
                    key |-> "", before |-> Snapshot ]
       /\ UNCHANGED <<nonces, uploads, pending>>

\* the first call takes any message; a later call sends the same one again
\* under a new id
SendMessage ==
    \E message \in (IF last.op = "none" THEN Drafts ELSE {last.rq.message}),
       generate_embeds \in
          (IF last.op = "none" THEN BOOLEAN ELSE {last.rq.generate_embeds}),
       fault \in (IF last.op = "none" THEN {"none", "insert_message"} ELSE {last.rq.fault}) :
        DirectCall("send", message, generate_embeds, TRUE, fault)

SendWithoutNotifications ==
    \E message \in (IF last.op = "none" THEN Drafts ELSE {last.rq.message}),
       generate_embeds \in
          (IF last.op = "none" THEN BOOLEAN ELSE {last.rq.generate_embeds}),
       mentions_elsewhere \in BOOLEAN,
       fault \in (IF last.op = "none" THEN {"none", "insert_message"} ELSE {last.rq.fault}) :
        DirectCall("send_without_notifications", message, generate_embeds,
                   mentions_elsewhere, fault)

NextSend == SendMessage \/ SendWithoutNotifications

SpecSend == Init /\ [][NextSend]_vars

---------------------------------------------------------------------------
(* Concurrent sends that carry the same nonce.  A request runs up to the   *)
(* idempotency guard, and later runs the rest of the pipeline; other       *)
(* requests run in between.  No dedup window ends meanwhile.               *)

SendTasks == {"t1", "t2", "t3"}

\* Ulid::new(): every request gets an id of its own
TaskMessageId == [t1 |-> 11, t2 |-> 12, t3 |-> 13]

\* requests with the nonce n1: storable, empty, too large, with an upload, and
\* with a database that refuses the insert
SameNonceRequests ==
    { [BaseRequest EXCEPT !.nonce = Some("n1"), !.content = c, !.attachments = a,
                          !.fault = x] :
        c \in {None, Some(<<"a">>), Some(Repeat("a", MessageLength + 1))},
        a \in {None, Some(<<"f1">>)},
        x \in {"none", "insert_message"} }

NotStarted ==
    [op |-> "new", rq |-> BaseRequest, st |-> Enter(BaseRequest, 0, EmptyMap, {}, EmptyMap)]

InitNonce ==
    /\ messages = InitMessages
    /\ nonces = {}
    /\ uploads = InitUploads
    /\ events = <<>>
    /\ tasks = <<>>
    /\ last = NoCall
    /\ pending = [t \in SendTasks |-> NotStarted]

\* a request passes the size gate and the idempotency guard
ConsumeNonce ==
    \E t \in SendTasks, rq \in SameNonceRequests :
        LET st == Intake(rq, TaskMessageId[t], messages, nonces, uploads)
        IN /\ pending[t].op = "new"
           /\ nonces' = st.cache
           /\ pending' = [pending EXCEPT ![t] = [op |-> "consumed", rq |-> rq, st |-> st]]
           /\ UNCHANGED <<messages, uploads, events, tasks, last>>

\* the request runs the rest of the pipeline and returns
FinishSend ==
    \E t \in SendTasks :
        LET rq == pending[t].rq
            st == Finish(pending[t].st, rq, messages, uploads)
        IN /\ pending[t].op = "consumed"
           /\ messages' = st.db
           /\ uploads' = st.store
           /\ events' = st.events
           /\ tasks' = st.tasks
           /\ last' = [ op |-> "create_from_api", rq |-> rq, res |-> st.res,
                        calls |-> st.calls, message |-> st.message, key |-> st.key,
                        before |-> Snapshot ]
           /\ pending' = [pending EXCEPT ![t] = [op |-> "done", rq |-> rq, st |-> st]]
           /\ UNCHANGED nonces

NextNonce == ConsumeNonce \/ FinishSend

SpecNonce == InitNonce /\ [][NextNonce]_vars

---------------------------------------------------------------------------
(* Concurrent reaction requests on one message.  A request loads the       *)
(* message, and later runs its handler on the copy it loaded, writing      *)
(* through the database as it is then; other requests run in between.      *)

RaceTasks == {"t1", "t2"}

Idle(runs) ==
    [op |-> "idle", user |-> "", emoji |-> UnknownEmoji, self |-> MessageDefault,
     runs |-> runs]

InitRace ==
    /\ messages = (1 :> StoredMessage(1, "txt", "u2"))
    /\ nonces = {}
    /\ uploads = InitUploads
    /\ events = <<>>
    /\ tasks = <<>>
    /\ last = NoCall
    /\ pending = [t \in RaceTasks |-> Idle(0)]

\* a request handler fetches the message it is about
LoadReaction ==
    \E t \in RaceTasks, op \in {"add_reaction", "remove_reaction", "clear_reaction"},
       user \in Users, emoji \in Emojis :
        /\ pending[t].op = "idle"
        /\ pending[t].runs < MaxRuns
        /\ pending' = [pending EXCEPT ![t] =
                          [op |-> op, user |-> IF op = "clear_reaction" THEN "" ELSE user,
                           emoji |-> emoji, self |-> messages[1], runs |-> @.runs + 1]]
        /\ UNCHANGED <<messages, nonces, uploads, events, tasks, last>>

\* the handler runs on the message the request loaded
WriteReaction ==
    \E t \in RaceTasks :
        LET r == pending[t]
            st == CASE r.op = "add_reaction" -> add_reaction(r.self, messages, r.user, r.emoji)
                    [] r.op = "remove_reaction" ->
                           remove_reaction(r.self, messages, r.user, r.emoji)
                    [] OTHER -> clear_reaction(r.self, messages, r.emoji)
        IN /\ r.op # "idle"
           /\ messages' = st.db
           /\ events' = st.events
           /\ tasks' = <<>>
           /\ last' = [ op |-> r.op, rq |-> [id |-> 1, user |-> r.user, emoji |-> r.emoji],
                        res |-> st.res, calls |-> st.calls, message |-> r.self,
                        key |-> "", before |-> Snapshot ]
           /\ pending' = [pending EXCEPT ![t] = Idle(r.runs)]
           /\ UNCHANGED <<nonces, uploads>>

NextRace == LoadReaction \/ WriteReaction

SpecRace == InitRace /\ [][NextRace]_vars

---------------------------------------------------------------------------
(* Properties of Message::create_from_api *)

Sent == last.op = "create_from_api"
Stored == Sent /\ last.res = Ok
NothingStored == messages = last.before.messages
NoFanOut == events = <<>> /\ tasks = <<>>
Called(op) == \E i \in 1..Len(last.calls) : last.calls[i].op = op
CallsOf(op) == SelectSeq(last.calls, LAMBDA c : c.op = op)
CreatedIds == DOMAIN messages \cap NewIds

\* the state of the last call after the given prefix of the pipeline
AfterConstruct ==
    UpToConstruct(last.rq, last.message.id, last.before.messages, last.before.nonces,
                  last.before.uploads)
AfterMassMention ==
    UpToMassMention(last.rq, last.message.id, last.before.messages, last.before.nonces,
                    last.before.uploads)

NonceConsumedBefore ==
    Sent /\ IsSome(last.rq.nonce) /\ Unwrap(last.rq.nonce) \in last.before.nonces

SizeOk(rq) ==
    validate_sum(rq.content, IF IsSome(rq.embeds) THEN Unwrap(rq.embeds) ELSE <<>>,
                 MessageLength) = Ok

FailedBeforePersistence ==
    Sent /\ last.res # Ok /\ last.res # ErrWith("DatabaseError", "insert_one")

\* C2: a call that returns an error from a stage before persistence has not
\* called insert_message, has published no event and has enqueued no task.
C2_HardGate ==
    FailedBeforePersistence =>
        /\ ~Called("insert_message") /\ ~Called("publish") /\ ~Called("queue")
        /\ NothingStored /\ NoFanOut

\* a call failed in the last stage before persistence, after binding an upload
C2_Witness ==
    /\ FailedBeforePersistence
    /\ last.res = Err("NotFound")
    /\ Called("use_attachment")
    /\ \E f \in DOMAIN uploads : uploads[f] # last.before.uploads[f]

BothMentionBits(m) ==
    IsSome(m.flags) /\ has(Unwrap(m.flags), MentionsEveryone)
                    /\ has(Unwrap(m.flags), MentionsOnline)

\* C3: no message stored by create_from_api has both the MentionsEveryone and
\* the MentionsOnline bit set.
C3_NeverBoth == \A id \in CreatedIds : ~BothMentionBits(messages[id])

MentionsEveryoneOrOnline(rq) ==
    IsSome(rq.content)
    /\ (parse_message(Unwrap(rq.content)).mentions_everyone
        \/ parse_message(Unwrap(rq.content)).mentions_online)

C4_Case ==
    /\ Sent
    /\ last.rq.mass_mentions_enabled
    /\ last.rq.author = "User"
    /\ "MentionEveryone" \notin last.rq.perms
    /\ MentionsEveryoneOrOnline(last.rq)

\* C4: with mass mentions enabled, a non-bot user without MentionEveryone whose
\* text mentions everyone or online has no message persisted, and the call
\* fails with MissingPermission{MentionEveryone} once it has passed the gates
\* that come before mention resolution.
C4_MissingPermission ==
    C4_Case =>
        /\ last.res # Ok /\ NothingStored /\ ~Called("insert_message")
        /\ AfterConstruct.res = Ok
             => last.res = ErrWith("MissingPermission", "MentionEveryone")

C4_Witness ==
    /\ C4_Case
    /\ last.rq.content = Some(<<"@everyone">>)
    /\ last.res = ErrWith("MissingPermission", "MentionEveryone")

C5_Case == Sent /\ IsSome(last.rq.flags) /\ Unwrap(last.rq.flags) > 7

\* the request of the last call would have been stored had it carried no flags
FlagsAreTheOnlyDefect ==
    create_from_api([last.rq EXCEPT !.flags = None], last.message.id,
                    last.before.messages, last.before.nonces, last.before.uploads).res = Ok

\* C5: a request whose raw flags exceed 7 is never stored, whatever its low
\* three bits, and fails with InvalidProperty when the flags are its only defect.
C5_FlagsRejected ==
    C5_Case =>
        /\ last.res # Ok /\ NothingStored /\ ~Called("insert_message")
        /\ FlagsAreTheOnlyDefect => last.res = Err("InvalidProperty")

C5_Witness ==
    /\ C5_Case
    /\ Unwrap(last.rq.flags) = 15
    /\ FlagsAreTheOnlyDefect
    /\ last.res = Err("InvalidProperty")

\* absent or of length 0
AbsentOrEmpty(o) == o = None \/ o = Some(<<>>)

EmptyRequest(rq) ==
    AbsentOrEmpty(rq.content) /\ AbsentOrEmpty(rq.attachments) /\ AbsentOrEmpty(rq.embeds)

\* C6: a send with no text, no attachment and no embed stores nothing and fails
\* with EmptyMessage (the idempotency guard, which runs first, may refuse a
\* consumed nonce before that); a send with one of the three is never refused
\* with EmptyMessage.
C6_EmptyMessage ==
    Sent =>
        IF EmptyRequest(last.rq)
        THEN /\ last.res # Ok /\ NothingStored /\ ~Called("insert_message")
             /\ ~NonceConsumedBefore => last.res = Err("EmptyMessage")
        ELSE last.res.type # "EmptyMessage"

C6_Witness ==
    /\ Sent
    /\ last.rq.content = Some(<<>>)
    /\ last.rq.attachments = Some(<<>>)
    /\ last.rq.embeds = Some(<<>>)
    /\ last.res = Err("EmptyMessage")

RestrictsWithoutWhitelist(i) ==
    i.restrict_reactions /\ (i.reactions = None \/ i.reactions = Some({}))

C7_Case ==
    /\ Sent
    /\ IsSome(last.rq.interactions)
    /\ RestrictsWithoutWhitelist(Unwrap(last.rq.interactions))

\* C7: a request that restricts reactions without a non-empty whitelist is
\* always rejected and nothing is stored; every message stored by
\* create_from_api restricts reactions only with a non-empty whitelist.
C7_RestrictNeedsWhitelist ==
    /\ C7_Case => last.res # Ok /\ NothingStored /\ ~Called("insert_message")
    /\ \A id \in CreatedIds : ~RestrictsWithoutWhitelist(messages[id].interactions)

\* such a request, with nothing else wrong, was refused with InvalidProperty
C7_Witness ==
    /\ C7_Case
    /\ Unwrap(last.rq.interactions).reactions = Some({})
    /\ last.res = Err("InvalidProperty")
    /\ create_from_api([last.rq EXCEPT !.interactions = None], last.message.id,
                       last.before.messages, last.before.nonces,
                       last.before.uploads).res = Ok

ReplyCount == IF IsSome(last.rq.replies) THEN Len(Unwrap(last.rq.replies)) ELSE 0

\* C8: more reply intents than the maximum: nothing is stored, no reply target
\* is looked up, and the call fails with TooManyReplies{max} once it has passed
\* the stages that come before reply linking; exactly max intents are not
\* refused with TooManyReplies.
C8_TooManyReplies ==
    Sent =>
        IF ReplyCount > MessageReplies
        THEN /\ last.res # Ok /\ NothingStored
             /\ ~Called("fetch_message")
             /\ AfterMassMention.res = Ok
                  => last.res = ErrWith("TooManyReplies", MessageReplies)
        ELSE last.res.type # "TooManyReplies"

C8_Witness ==
    /\ Sent
    /\ ReplyCount = MessageReplies + 1
    /\ last.res = ErrWith("TooManyReplies", MessageReplies)
    /\ ~Called("fetch_message")

\* the reply intents of the last call, and what the lookup of each one gives
Entries == Unwrap(last.rq.replies)
LookupFails(intent) ==
    last.rq.fault = "fetch_message" \/ intent.id \notin DOMAIN last.before.messages
LookupError(intent) ==
    IF last.rq.fault = "fetch_message" THEN ErrWith("DatabaseError", "find_one")
    ELSE Err("NotFound")
Skipped(intent) ==
    /\ LookupFails(intent)
    /\ LookupError(intent) = Err("NotFound")
    /\ intent.fail_if_not_exists = Some(FALSE)
Aborts(intent) == LookupFails(intent) /\ ~Skipped(intent)
AbortingEntries == {i \in 1..Len(Entries) : Aborts(Entries[i])}
FirstAbort == CHOOSE i \in AbortingEntries : \A j \in AbortingEntries : i <= j
LookedUp(n) == [i \in 1..n |-> Call("fetch_message", Entries[i].id)]

C9_Case ==
    /\ Sent
    /\ IsSome(last.rq.replies)
    /\ Len(Entries) <= MessageReplies
    /\ AfterMassMention.res = Ok

\* C9: the first reply intent whose lookup fails aborts the send with the
\* lookup error, unless the error is NotFound and the intent's strictness flag
\* is explicitly false: then that intent alone is skipped, the remaining
\* intents are looked up and the found ones are the replies of the message.
C9_ReplyLookup ==
    C9_Case =>
        IF AbortingEntries # {}
        THEN /\ last.res = LookupError(Entries[FirstAbort])
             /\ NothingStored
             /\ CallsOf("fetch_message") = LookedUp(FirstAbort)
        ELSE /\ CallsOf("fetch_message") = LookedUp(Len(Entries))
             /\ last.res # ErrWith("DatabaseError", "find_one")
             /\ last.res = Err("NotFound") => Called("use_attachment")
             /\ Stored =>
                  LET found == {Entries[i].id : i \in {j \in 1..Len(Entries) :
                                                         ~LookupFails(Entries[j])}}
                  IN last.message.replies = (IF found = {} THEN None ELSE Some(found))

\* a missing target was skipped and the next intent was linked
C9_Witness ==
    /\ C9_Case
    /\ Stored
    /\ Len(Entries) = 2
    /\ Skipped(Entries[1])
    /\ ~LookupFails(Entries[2])
    /\ last.message.replies = Some({Entries[2].id})

---------------------------------------------------------------------------
(* Properties of the reaction handlers *)

Reacted == last.op = "add_reaction"
AtLimit == Cardinality(DOMAIN last.message.reactions) >= MessageReactions
NewEmoji == last.rq.emoji \notin DOMAIN last.message.reactions

\* C10: on a message whose distinct emoji count has reached the limit,
\* add_reaction refuses every emoji that is not yet a key with InvalidOperation
\* and changes nothing, and accepts a reaction to an emoji that already is a key.
C10_ReactionCapacity ==
    Reacted /\ AtLimit =>
        IF NewEmoji
        THEN last.res = Err("InvalidOperation") /\ NothingStored /\ events = <<>>
        ELSE /\ last.res = Ok
             /\ last.rq.user \in messages[last.rq.id].reactions[last.rq.emoji]

\* a second user reacted with an existing emoji on a message at the limit
C10_Witness ==
    /\ Reacted /\ AtLimit /\ ~NewEmoji
    /\ Cardinality(DOMAIN last.message.reactions) = MessageReactions
    /\ last.rq.user \notin last.message.reactions[last.rq.emoji]
    /\ last.res = Ok
    /\ messages[last.rq.id].reactions[last.rq.emoji]
         = last.message.reactions[last.rq.emoji] \cup {last.rq.user}

\* the last call removed the only reactor of its emoji
RemovedLastReactor ==
    /\ last.op = "remove_reaction"
    /\ last.res = Ok
    /\ last.message.reactions[last.rq.emoji] = {last.rq.user}

\* the next call is a remove of the same emoji on the same message
RemovesSameEmojiNext ==
    /\ last'.op = "remove_reaction"
    /\ last'.rq.id = last.rq.id
    /\ last'.rq.emoji = last.rq.emoji

\* C11: removing the last reactor of an emoji persists the removal of the whole
\* key (clear_reaction, not remove_reaction) so that the key is gone from the
\* stored message, and a remove of the same emoji that follows returns NotFound.
C11_LastReactor ==
    [][ /\ RemovedLastReactor' =>
             /\ last'.rq.emoji \notin DOMAIN messages'[last'.rq.id].reactions
             /\ last'.calls[Len(last'.calls)] = Call("clear_reaction", last'.rq.emoji)
             /\ \A i \in 1..Len(last'.calls) : last'.calls[i].op # "remove_reaction"
        /\ RemovedLastReactor /\ RemovesSameEmojiNext =>
             /\ last'.res = Err("NotFound")
             /\ messages' = messages /\ events' = <<>> ]_vars

\* the only reactor of an emoji was removed and the key is gone, others remain
C11_Witness ==
    /\ RemovedLastReactor
    /\ last.rq.emoji \notin DOMAIN messages[last.rq.id].reactions
    /\ DOMAIN messages[last.rq.id].reactions # {}

---------------------------------------------------------------------------
(* Properties of Message::bulk_delete *)

BulkDeleted == last.op = "bulk_delete" /\ last.rq.fault = "none"

\* the requested ids that resolve to messages of the requested channel
Surviving ==
    {id \in Range(last.rq.ids) :
        id \in DOMAIN last.before.messages
        /\ last.before.messages[id].channel = last.rq.channel}

\* C12: bulk_delete removes exactly the requested ids that are messages of the
\* given channel, keeps every other message as it was, raises no error for
\* foreign or unknown ids, and publishes one BulkMessageDelete event whose ids
\* are exactly the removed ones.
C12_BulkDelete ==
    BulkDeleted =>
        /\ last.res = Ok
        /\ DOMAIN messages = DOMAIN last.before.messages \ Surviving
        /\ \A id \in DOMAIN messages : messages[id] = last.before.messages[id]
        /\ events = <<[type |-> "BulkMessageDelete", channel |-> last.rq.channel,
                       ids |-> Surviving]>>

\* one call with an id of the channel, an id of another channel and an unknown id
C12_Witness ==
    /\ BulkDeleted
    /\ last.rq.channel = "txt"
    /\ last.rq.ids = <<1, 2, 9>>
    /\ Surviving = {1}
    /\ DOMAIN messages = {2, 3}
    /\ last.res = Ok

---------------------------------------------------------------------------
(* Properties of Message::create_from_api, continued *)

\* the last call built its message completely (stored, or refused by the database)
Finalized ==
    Sent /\ (last.res = Ok \/ last.res = ErrWith("DatabaseError", "insert_one"))

HasBit(m, bit) == IsSome(m.flags) /\ has(Unwrap(m.flags), bit)

C13_Case == Sent /\ ~last.rq.mass_mentions_enabled

\* C13: with the mass mention feature disabled, a finalized message has neither
\* the MentionsEveryone nor the MentionsOnline bit and no role mentions, and the
\* mass mention stage fails no request: it asks for no permission and a request
\* that reached it passes it.
C13_KillSwitch ==
    C13_Case =>
        /\ Finalized =>
              /\ ~HasBit(last.message, MentionsEveryone)
              /\ ~HasBit(last.message, MentionsOnline)
              /\ last.message.role_mentions = None
        /\ Stored => messages[last.message.id] = last.message
        /\ last.res.type # "MissingPermission"
        /\ ~Called("calculate_channel_permissions")
        /\ AfterConstruct.res = Ok => AfterMassMention.res = Ok

\* a system message with the raw everyone bit and a role token was stored clean
C13_Witness ==
    /\ C13_Case /\ Stored
    /\ last.rq.author = "System"
    /\ last.rq.flags = Some(Pow2(MentionsEveryone))
    /\ last.rq.content = Some(<<"<%r1>">>)
    /\ last.rq.allow_mentions
    /\ messages[last.message.id].flags = Some(0)
    /\ messages[last.message.id].role_mentions = None

\* the length of the text of a request plus the lengths of its embeds' descriptions
TextSize(rq) ==
    (IF IsSome(rq.content) THEN StrLen(Unwrap(rq.content)) ELSE 0)
    + (IF IsSome(rq.embeds)
       THEN SumSeq([i \in 1..Len(Unwrap(rq.embeds)) |->
                      IF IsSome(Unwrap(rq.embeds)[i].description)
                      THEN StrLen(Unwrap(Unwrap(rq.embeds)[i].description)) ELSE 0])
       ELSE 0)

\* C14: a request whose text size exceeds the maximum fails with PayloadTooLarge
\* before anything else is called: the nonce is not consumed and no upload is
\* resolved; a request of exactly the maximum passes the size gate and reaches
\* the idempotency guard.
C14_SizeGateFirst ==
    Sent =>
        IF TextSize(last.rq) > MessageLength
        THEN /\ last.res = Err("PayloadTooLarge")
             /\ last.calls = <<>>
             /\ nonces \subseteq last.before.nonces
             /\ uploads = last.before.uploads
             /\ NothingStored /\ NoFanOut
        ELSE /\ last.res.type # "PayloadTooLarge"
             /\ last.calls # <<>> /\ last.calls[1] = Call("consume_nonce", 0)

\* an oversized request with a fresh nonce and a free upload was refused untouched
C14_Witness ==
    /\ Sent
    /\ TextSize(last.rq) = MessageLength + 1
    /\ last.rq.nonce = Some("n1") /\ "n1" \notin last.before.nonces
    /\ last.rq.attachments = Some(<<"f1">>)
    /\ last.res = Err("PayloadTooLarge")
    /\ "n1" \notin nonces /\ uploads["f1"] = 0

\* a request of exactly the maximum, text and embed description together, was stored
ExactSizeStored ==
    /\ Stored
    /\ TextSize(last.rq) = MessageLength
    /\ IsSome(last.rq.embeds)

\* the state of the last call when it reached the binder
BeforeBind ==
    StageFinalize(StageNarrow(StageReplies(AfterMassMention, last.rq), last.rq), last.rq)

Count(o) == IF IsSome(o) THEN Len(Unwrap(o)) ELSE 0

Untouched == uploads = last.before.uploads /\ ~Called("use_attachment")

\* C15: more attachments than the limit: nothing is stored, no upload is
\* resolved, and the call that reached the binder fails with
\* TooManyAttachments{max}; more embeds than the limit: the same with
\* TooManyEmbeds{max} (the attachment count is looked at first); counts within
\* the limits are never refused so, and every stored message is within them.
C15_CountLimits ==
    /\ Sent /\ Count(last.rq.attachments) > MessageAttachments =>
          /\ last.res # Ok /\ NothingStored /\ Untouched
          /\ BeforeBind.res = Ok
                => last.res = ErrWith("TooManyAttachments", MessageAttachments)
    /\ Sent /\ Count(last.rq.embeds) > MessageEmbeds =>
          /\ last.res # Ok /\ NothingStored /\ Untouched
          /\ BeforeBind.res = Ok /\ Count(last.rq.attachments) <= MessageAttachments
                => last.res = ErrWith("TooManyEmbeds", MessageEmbeds)
    /\ Sent /\ Count(last.rq.attachments) <= MessageAttachments
          => last.res.type # "TooManyAttachments"
    /\ Sent /\ Count(last.rq.embeds) <= MessageEmbeds
          => last.res.type # "TooManyEmbeds"
    /\ \A id \in CreatedIds :
          /\ Count(messages[id].attachments) <= MessageAttachments
          /\ Count(messages[id].embeds) <= MessageEmbeds

\* too many embeds, each with a media reference, next to an attachment within
\* the limit: refused with both uploads still free
C15_Witness ==
    /\ Sent
    /\ Count(last.rq.embeds) = MessageEmbeds + 1
    /\ IsSome(Unwrap(last.rq.embeds)[1].media)
    /\ last.rq.attachments = Some(<<"f1">>)
    /\ last.res = ErrWith("TooManyEmbeds", MessageEmbeds)
    /\ Untouched

\* the request of the last call carries an embed that validate() refuses
HasInvalidEmbed ==
    /\ IsSome(last.rq.embeds)
    /\ \E i \in 1..Len(Unwrap(last.rq.embeds)) : ~Unwrap(last.rq.embeds)[i].valid

\* C16: a send with an embed that fails validation stores no message and, once
\* it has reached the embed loop, fails with FailedValidation before any upload
\* is resolved for that embed.
C16_EmbedValidated ==
    Sent /\ HasInvalidEmbed =>
        /\ ~Stored /\ NothingStored
        /\ (BeforeBind.res = Ok /\ Count(last.rq.embeds) <= MessageEmbeds
             /\ Count(last.rq.attachments) = 0 /\ last.rq.fault = "none")
              => last.res.type = "FailedValidation" /\ Untouched

Queued(kind) == \E i \in 1..Len(tasks) : tasks[i].kind = kind

\* the message does not suppress notifications and mentions users, everyone or roles
PushExpected(m) ==
    /\ ~HasBit(m, SuppressNotifications)
    /\ (IsSome(m.mentions) \/ HasBit(m, MentionsEveryone) \/ IsSome(m.role_mentions))

\* C17: Message::send enqueues the push notification task exactly when the
\* message does not suppress notifications and has user mentions, the
\* MentionsEveryone bit or role mentions.
C17_PushGate == Stored => (Queued("ack_push") <=> PushExpected(last.message))

---------------------------------------------------------------------------
(* Properties of Message::send and Message::send_without_notifications *)

SentDirectly == last.op \in {"send", "send_without_notifications"}

\* the place of each collaborator call in the order of the fan-out
Rank(c) ==
    CASE c.op = "insert_message" -> 0
      [] c.op = "publish" -> 1
      [] c.op = "queue" /\ c.arg = "last_message_id" -> 2
      [] c.op = "queue" /\ c.arg = "ack_mentions" -> 3
      [] c.op = "queue" /\ c.arg = "process_embeds" -> 4
      [] c.op = "queue" /\ c.arg = "ack_push" -> 5

InOrder(calls) == \A i, j \in 1..Len(calls) : i < j => Rank(calls[i]) < Rank(calls[j])

\* C18: every send first inserts the message; when the insert fails nothing is
\* published or enqueued; otherwise the event is published, then the
\* last-message-id task is enqueued, then the mention task, the embed task and
\* the push task, in this order, each one only under its condition.
C18_FanOutOrder ==
    SentDirectly =>
        /\ last.calls[1] = Call("insert_message", last.message.id)
        /\ InOrder(last.calls)
        /\ IF last.rq.fault = "insert_message"
           THEN /\ last.res = ErrWith("DatabaseError", "insert_one")
                /\ Len(last.calls) = 1 /\ NoFanOut /\ NothingStored
           ELSE /\ last.res = Ok
                /\ messages[last.message.id] = last.message
                /\ Len(last.calls) >= 3
                /\ last.calls[2] = Call("publish", "Message")
                /\ last.calls[3] = Call("queue", "last_message_id")
                /\ events = <<Event("Message", last.message)>>
                /\ tasks = [i \in 1..(Len(last.calls) - 2) |->
                              Task(last.calls[i + 2].arg, last.message)]
                /\ Queued("ack_mentions") =>
                      ~last.rq.mentions_elsewhere /\ IsSome(last.message.mentions)
                /\ Queued("process_embeds") =>
                      last.rq.generate_embeds /\ IsSome(last.message.content)
                /\ Queued("ack_push") =>
                      last.op = "send" /\ PushExpected(last.message)

\* a send that published the event and enqueued the last-message-id, embed and
\* push tasks
C18_Witness ==
    /\ last.op = "send" /\ last.res = Ok
    /\ [i \in 1..Len(tasks) |-> tasks[i].kind]
         = <<"last_message_id", "process_embeds", "ack_push">>
    /\ Len(events) = 1

\* a notifications-free send that enqueued the mention task before the embed task
MentionsThenEmbeds ==
    /\ last.op = "send_without_notifications" /\ last.res = Ok
    /\ [i \in 1..Len(tasks) |-> tasks[i].kind]
         = <<"last_message_id", "ack_mentions", "process_embeds">>

---------------------------------------------------------------------------
(* Properties of Message::create_from_api: collaborators and the nonce *)

\* C19: a call that fails before persistence leaves the collaborators as they
\* were: no nonce is newly registered with the idempotency guard and no upload
\* is bound to the message that was never stored.
C19_FailureLeavesNoTrace ==
    FailedBeforePersistence =>
        /\ nonces \subseteq last.before.nonces
        /\ uploads = last.before.uploads
        /\ NothingStored /\ NoFanOut

\* what the idempotency guard answers to the request of the last call
GuardAnswer == consume_nonce(last.before.nonces, last.rq.key, last.rq.nonce)

\* C20: a stored message carries the key the idempotency guard returned for its
\* request as its nonce, with or without a nonce in the request; the guard is
\* consulted exactly once by every request that passes the size gate, and never
\* by one that does not.
C20_NonceEcho ==
    /\ Stored =>
          /\ GuardAnswer.res = Ok
          /\ messages[last.message.id].nonce = Some(GuardAnswer.key)
    /\ Sent => Len(CallsOf("consume_nonce")) = (IF SizeOk(last.rq) THEN 1 ELSE 0)

\* a request without a nonce was stored under the guard's own key
C20_Witness ==
    /\ Stored
    /\ last.rq.nonce = None
    /\ messages[last.message.id].nonce = Some(last.rq.key)

\* a request with a nonce was stored under that nonce
NonceStored ==
    /\ Stored
    /\ last.rq.nonce = Some("n1")
    /\ messages[last.message.id].nonce = Some("n1")

---------------------------------------------------------------------------
(* Properties of Message::has_suppressed_notifications *)

\* bit 0 of the flags of a message is set
BitZero(m) == IsSome(m.flags) /\ Unwrap(m.flags) % 2 = 1

\* C21: has_suppressed_notifications answers true exactly for the messages
\* whose flags are present with bit 0 set, whatever the other bits; it answers
\* false when flags are absent.
C21_SuppressedIsBitZero ==
    SentDirectly /\ last.res = Ok => (has_suppressed_notifications(last.message) <=> BitZero(last.message))

---------------------------------------------------------------------------
(* Properties of the finalized message: collections and mentions *)

\* an optional set / an optional list is absent or has an element
AbsentOrNonEmptySet(o) == IsNone(o) \/ Unwrap(o) # {}
AbsentOrNonEmptyList(o) == IsNone(o) \/ Len(Unwrap(o)) > 0

\* C22: on a finalized message, mentions, role_mentions, replies, attachments
\* and embeds are each absent or non-empty, never present and empty.
C22_AbsentNotEmpty ==
    Finalized =>
        /\ AbsentOrNonEmptySet(last.message.mentions)
        /\ AbsentOrNonEmptySet(last.message.role_mentions)
        /\ AbsentOrNonEmptySet(last.message.replies)
        /\ AbsentOrNonEmptyList(last.message.attachments)
        /\ AbsentOrNonEmptyList(last.message.embeds)
        /\ Stored => messages[last.message.id] = last.message

\* the text mentioned users, narrowing dropped them all, the only reply intent
\* was skipped, and the message was stored without mentions and replies
C22_Witness ==
    /\ Stored /\ IsSome(last.rq.content)
    /\ parse_message(Unwrap(last.rq.content)).user_mentions # {}
    /\ IsSome(last.rq.replies) /\ Len(Unwrap(last.rq.replies)) = 1
    /\ last.message.mentions = None
    /\ last.message.replies = None

ChannelOf(rq) == Channels[rq.channel]

MentionSet(m) == IF IsSome(m.mentions) THEN Unwrap(m.mentions) ELSE {}
RoleMentionSet(m) == IF IsSome(m.role_mentions) THEN Unwrap(m.role_mentions) ELSE {}

\* C23: a message finalized in a direct message or group channel mentions only
\* recipients of the channel and has no role mentions.
C23_DirectNarrowing ==
    Finalized /\ ChannelOf(last.rq).kind \in {"DirectMessage", "Group"} =>
        /\ MentionSet(last.message) \subseteq ChannelOf(last.rq).recipients
        /\ last.message.role_mentions = None

\* the state of the last call after reply linking and after mention narrowing
AfterReplies == StageReplies(AfterMassMention, last.rq)
AfterNarrow == StageNarrow(AfterReplies, last.rq)

InServer(rq) == ChannelOf(rq).kind \in {"TextChannel", "VoiceChannel"}

\* C24: a message finalized in a server channel mentions only members of the
\* server who can see the channel, reply authors included; the other mentioned
\* ids are dropped, exactly those, and dropping them fails no request.
C24_ServerNarrowing ==
    Sent /\ InServer(last.rq) =>
        /\ Finalized =>
              MentionSet(last.message) \subseteq (ServerMembers \cap CanSeeChannel)
        /\ AfterReplies.res = Ok /\ last.rq.fault # "fetch_members" =>
              /\ AfterNarrow.res = Ok
              /\ AfterNarrow.user_mentions
                   = AfterReplies.user_mentions \cap ServerMembers \cap CanSeeChannel
              /\ last.res.type # "InternalError"

\* the text mentioned a member who cannot see the channel and a stranger, a
\* reply added the target's author, and only that author was kept
C24_Witness ==
    /\ Stored /\ InServer(last.rq) /\ IsSome(last.rq.content)
    /\ parse_message(Unwrap(last.rq.content)).user_mentions = {"u3", "u9"}
    /\ AfterReplies.user_mentions = {"u2", "u3", "u9"}
    /\ messages[last.message.id].mentions = Some({"u2"})

\* the state of the last call after the text was parsed and its roles pruned
AfterParse == StageParse(AfterConstruct, last.rq)

MassSignal(st) == st.mentions_everyone \/ st.mentions_online \/ st.role_mentions # {}

C25_Case ==
    /\ Sent /\ last.rq.mass_mentions_enabled
    /\ AfterParse.res = Ok /\ MassSignal(AfterParse)

\* C25: with mass mentions enabled and a mass mention signal present, the
\* system author fails with InvalidProperty; a webhook passes the stage without
\* any permission being computed and never gets MissingPermission; a user who
\* mentions roles without MentionRoles fails with MissingPermission, and it
\* names MentionRoles once the everyone/online check has passed.
C25_AuthorKinds ==
    C25_Case =>
        /\ last.rq.author = "System" =>
              last.res = Err("InvalidProperty") /\ NothingStored
        /\ last.rq.author = "Webhook" =>
              /\ AfterMassMention.res = Ok
              /\ last.res.type # "MissingPermission"
              /\ ~Called("calculate_channel_permissions")
        /\ (/\ last.rq.author \in {"User", "Bot"}
            /\ AfterParse.role_mentions # {}
            /\ "MentionRoles" \notin last.rq.perms) =>
              /\ last.res.type = "MissingPermission" /\ NothingStored
              /\ (AfterParse.mentions_everyone \/ AfterParse.mentions_online
                     => "MentionEveryone" \in last.rq.perms)
                   => last.res = ErrWith("MissingPermission", "MentionRoles")

\* a bot holding MentionEveryone but not MentionRoles mentioned everyone and a
\* role of the server
C25_Witness ==
    /\ C25_Case /\ last.rq.author = "Bot"
    /\ AfterParse.mentions_everyone /\ AfterParse.role_mentions = {"r1"}
    /\ last.rq.perms = {"MentionEveryone"}
    /\ last.res = ErrWith("MissingPermission", "MentionRoles")

\* a stage's verdict on the request of the last call, taken whether or not an
\* earlier stage refused the request
Force(st) == [st EXCEPT !.res = Ok]
AtEntry ==
    Enter(last.rq, last.message.id, last.before.messages, last.before.nonces,
          last.before.uploads)
SizeVerdict == StageValidateSum(AtEntry, last.rq)
NonceVerdict == StageConsumeNonce(Force(SizeVerdict), last.rq)
EmptyVerdict == StageEmpty(Force(NonceVerdict), last.rq)
FlagsVerdict == StageFlags(Force(EmptyVerdict), last.rq)
InteractionsVerdict == StageInteractions(Force(FlagsVerdict), last.rq)
MentionVerdict ==
    StageMassMention(
     StageParse(StageConstruct(Force(InteractionsVerdict), last.rq), last.rq), last.rq)
ReplyVerdict == StageReplies(Force(MentionVerdict), last.rq)
NarrowVerdict == StageNarrow(Force(ReplyVerdict), last.rq)
BindVerdict == StageBind(StageFinalize(Force(NarrowVerdict), last.rq), last.rq)

\* the verdicts in the order of the stages: size, idempotency, emptiness, flags,
\* interactions, mention resolution, reply linking, the member lookup of
\* mention narrowing (which refuses no request by itself), binding
Verdicts ==
    << SizeVerdict.res, NonceVerdict.res, EmptyVerdict.res, FlagsVerdict.res,
       InteractionsVerdict.res, MentionVerdict.res, ReplyVerdict.res,
       NarrowVerdict.res, BindVerdict.res >>

Refusing == {i \in 1..Len(Verdicts) : Verdicts[i] # Ok}
Earliest == CHOOSE i \in Refusing : \A j \in Refusing : i <= j

\* C26: a refused call returns the one error of the earliest stage, in the order
\* size, idempotency, emptiness, flags, interactions, mention resolution, reply
\* linking, binding, whose check the request violates, whatever later stages
\* would have said; a call no stage refuses fails only if persisting fails.
C26_EarliestStage ==
    Sent =>
        /\ Refusing # {} => last.res = Verdicts[Earliest] /\ NothingStored
        /\ Refusing = {} =>
              last.res = Ok \/ last.res = ErrWith("DatabaseError", "insert_one")

\* an empty request with flags 8 failed with EmptyMessage
C26_Witness ==
    /\ Sent /\ Refusing = {3, 4}
    /\ last.rq.flags = Some(8)
    /\ FlagsVerdict.res = Err("InvalidProperty")
    /\ last.res = Err("EmptyMessage")

\* why the reaction of the last call is refused, if it is
OverCapacity == AtLimit /\ NewEmoji
NotWhitelisted ==
    /\ last.message.interactions.restrict_reactions
    /\ (IsSome(last.message.interactions.reactions)
          => last.rq.emoji \notin Unwrap(last.message.interactions.reactions))
Unusable == last.rq.emoji = UnknownEmoji

ReactionAdded ==
    [type |-> "MessageReact", id |-> last.rq.id, channel |-> last.message.channel,
     user |-> last.rq.user, emoji |-> last.rq.emoji]

\* C27: a reaction refused for capacity, for the whitelist or for an unusable
\* emoji publishes nothing and persists nothing; the emoji is looked up only
\* after the capacity and whitelist checks have passed; an accepted reaction
\* publishes exactly one reaction-added event and then persists the reactor.
C27_AddReaction ==
    Reacted =>
        IF OverCapacity \/ NotWhitelisted
        THEN /\ last.res = Err("InvalidOperation")
             /\ last.calls = <<>> /\ events = <<>> /\ NothingStored
        ELSE IF Unusable
        THEN /\ last.res = Err("InvalidOperation")
             /\ last.calls = <<Call("Emoji::can_use", last.rq.emoji)>>
             /\ events = <<>> /\ NothingStored
        ELSE /\ last.res = Ok
             /\ last.calls = << Call("Emoji::can_use", last.rq.emoji),
                                Call("publish", "MessageReact"),
                                Call("add_reaction", last.rq.emoji) >>
             /\ events = <<ReactionAdded>>
             /\ DOMAIN messages = DOMAIN last.before.messages
             /\ messages[last.rq.id].reactions[last.rq.emoji]
                  = (IF NewEmoji THEN {} ELSE last.message.reactions[last.rq.emoji])
                    \cup {last.rq.user}
             /\ \A e \in DOMAIN messages[last.rq.id].reactions \ {last.rq.emoji} :
                    /\ e \in DOMAIN last.message.reactions
                    /\ messages[last.rq.id].reactions[e] = last.message.reactions[e]

\* an emoji that is both outside the whitelist and unusable was refused
\* without being looked up
C27_Witness ==
    /\ Reacted /\ ~OverCapacity /\ NotWhitelisted /\ Unusable
    /\ last.res = Err("InvalidOperation")
    /\ last.calls = <<>> /\ events = <<>>

Unreacted == last.op = "remove_reaction"
NotAReactor ==
    \/ last.rq.emoji \notin DOMAIN last.message.reactions
    \/ last.rq.user \notin last.message.reactions[last.rq.emoji]
OthersRemain == ~NotAReactor /\ last.message.reactions[last.rq.emoji] # {last.rq.user}

ReactionRemoved ==
    [type |-> "MessageUnreact", id |-> last.rq.id, channel |-> last.message.channel,
     user |-> last.rq.user, emoji |-> last.rq.emoji]

\* C28: remove_reaction returns NotFound, publishes nothing and changes nothing
\* when the emoji is not a key of the message's reactions or the user is not
\* one of its reactors; when the user is a reactor and others remain, the
\* stored message loses that user under that emoji and nothing else changes.
C28_RemoveReaction ==
    Unreacted =>
        /\ NotAReactor =>
              /\ last.res = Err("NotFound")
              /\ events = <<>> /\ last.calls = <<>> /\ NothingStored
        /\ ~NotAReactor => last.res = Ok /\ events = <<ReactionRemoved>>
        /\ OthersRemain =>
              messages = [last.before.messages EXCEPT
                            ![last.rq.id].reactions[last.rq.emoji] = @ \ {last.rq.user}]

\* one of two reactors of an emoji was removed from a message that carries
\* another emoji as well
C28_Witness ==
    /\ Unreacted /\ OthersRemain /\ last.res = Ok
    /\ Cardinality(DOMAIN last.message.reactions) > 1
    /\ DOMAIN messages[last.rq.id].reactions = DOMAIN last.message.reactions
    /\ messages[last.rq.id].reactions[last.rq.emoji]
         = last.message.reactions[last.rq.emoji] \ {last.rq.user}
    /\ messages[last.rq.id].reactions[last.rq.emoji] # {}

InSaved(rq) == ChannelOf(rq).kind = "SavedMessages"

\* C29: a message finalized in a saved messages channel carries no user
\* mentions, whatever its text mentions and whatever its replies add, and the
\* mentions it loses fail no request.
C29_SavedNarrowing ==
    Sent /\ InSaved(last.rq) =>
        /\ Finalized => last.message.mentions = None
        /\ Stored => messages[last.message.id].mentions = None
        /\ AfterReplies.res = Ok => AfterNarrow.res = Ok /\ AfterNarrow.user_mentions = {}

\* the text mentioned two users, a reply added the author of its target, and
\* the message was stored in the saved messages channel without mentions
C29_Witness ==
    /\ Stored /\ InSaved(last.rq)
    /\ AfterReplies.user_mentions = {"u2", "u3", "u9"}
    /\ IsSome(last.message.replies)
    /\ messages[last.message.id].mentions = None

\* the role ids of the role tokens in the text of a request
ParsedRoles(rq) ==
    IF IsSome(rq.content) THEN parse_message(Unwrap(rq.content)).role_mentions ELSE {}

AllowMassMentions(rq) == rq.allow_mentions /\ rq.mass_mentions_enabled

\* C30: with mass mentions allowed by the feature switch and by the caller, in
\* a channel of a server, the roles mentioned by a finalized message are roles
\* of that server: the unknown ones are dropped, exactly those, and dropping
\* them fails no request; in a channel without a server the server is not
\* fetched and the parsed roles are left as they are.
C30_RolePruning ==
    Sent =>
        /\ AllowMassMentions(last.rq) /\ IsSome(ChannelOf(last.rq).server) =>
              /\ Finalized => RoleMentionSet(last.message) \subseteq ServerRoles
              /\ AfterConstruct.res = Ok /\ last.rq.fault # "fetch_server" =>
                    /\ AfterParse.res = Ok
                    /\ AfterParse.role_mentions = ParsedRoles(last.rq) \cap ServerRoles
        /\ IsNone(ChannelOf(last.rq).server) =>
              /\ ~Called("fetch_server")
              /\ AfterConstruct.res = Ok =>
                    /\ AfterParse.res = Ok
                    /\ AfterParse.role_mentions = ParsedRoles(last.rq)

\* a text naming a role of the server and an unknown role was stored with the
\* server's role alone
C30_Witness ==
    /\ Stored /\ AllowMassMentions(last.rq) /\ IsSome(ChannelOf(last.rq).server)
    /\ ParsedRoles(last.rq) = {"r1", "r9"}
    /\ Called("fetch_server")
    /\ messages[last.message.id].role_mentions = Some({"r1"})

---------------------------------------------------------------------------
(* Properties of the fan-out: the mention task and the embed task *)

\* the tasks of the last call that hand the message to the mention consumer
AckTasks == SelectSeq(tasks, LAMBDA t : t.kind \in {"ack_mentions", "ack_push"})

\* C31: a message with user mentions stored through Message::send has exactly
\* one mention-processing task enqueued for it, suppressed notifications or
\* not. The messages on which has_suppressed_notifications misreads the flags
\* are left out, so that what is checked is the gate of send alone.
C31_MentionTaskOnSend ==
    /\ last.op = "send" /\ last.res = Ok
    /\ IsSome(last.message.mentions)
    /\ (has_suppressed_notifications(last.message) <=> BitZero(last.message))
    => Len(AckTasks) = 1

\* the stored text of the last call is present and not of length zero
NonEmptyContent(m) == IsSome(m.content) /\ StrLen(Unwrap(m.content)) > 0

\* C32: the embed task is enqueued for a stored message exactly when embed
\* generation was requested and the text of the message is not empty; a
\* message stored with no text or with a text of length zero enqueues none.
C32_EmbedTask ==
    Stored /\ last.rq.fault = "none" /\ ~HasInvalidEmbed =>
        (Queued("process_embeds")
           <=> last.rq.generate_embeds /\ NonEmptyContent(messages[last.message.id]))

---------------------------------------------------------------------------
(* Properties of Message::delete and of the cascade to the attachments *)

Deleted == last.op = "delete"

\* the upload is marked as deleted and still names the owner it had
MarkedDeleted(f) ==
    /\ uploads[f] < 0
    /\ uploads[f] \in {last.before.uploads[f], 0 - last.before.uploads[f]}

\* the files owned by the messages the last call destroyed
DestroyedFiles ==
    UNION {FileIds(last.before.messages[id]) :
             id \in DOMAIN last.before.messages \ DOMAIN messages}

CallOps == [i \in 1..Len(last.calls) |-> last.calls[i].op]

BulkCascade ==
    /\ last.op = "bulk_delete" /\ last.res = Ok
    /\ DestroyedFiles = {"f1", "f2"}
    /\ MarkedDeleted("f1") /\ MarkedDeleted("f2")

---------------------------------------------------------------------------
(* Properties of concurrent reaction requests *)

StoredReactions == messages[1].reactions

\* C34: whatever the interleaving of reaction requests, the stored message
\* never has more distinct emoji than the limit.
C34_CapacityUnderRace == Cardinality(DOMAIN StoredReactions) <= MessageReactions

\* the user is a stored reactor of the emoji
Reactor(reactions, user, emoji) == emoji \in DOMAIN reactions /\ user \in reactions[emoji]

\* C35: a stored reaction disappears only in a step that runs that user's own
\* remove of that emoji or a clear of that emoji.
C35_ReactionKept ==
    [][ \A user \in Users, emoji \in Emojis :
          Reactor(messages[1].reactions, user, emoji)
          /\ ~Reactor(messages'[1].reactions, user, emoji)
          => \/ last'.op = "remove_reaction" /\ last'.rq.user = user
                                              /\ last'.rq.emoji = emoji
             \/ last'.op = "clear_reaction" /\ last'.rq.emoji = emoji ]_vars

\* C36: no emoji key of the stored reactions maps to an empty set of reactors.
C36_NoEmptyReactorSet == \A emoji \in DOMAIN StoredReactions : StoredReactions[emoji] # {}

---------------------------------------------------------------------------
(* Properties of concurrent sends with one nonce *)

\* the stored messages that carry the nonce n1
WithNonce(db) == {id \in DOMAIN db : db[id].nonce = Some("n1")}

\* the step completes the request of task t
Returns(t) == pending[t].op = "consumed" /\ pending'[t].op = "done"

\* C37: among concurrent sends with one nonce inside its dedup window, at most
\* one message is stored, a request returns success only by storing the first
\* such message, and no second request returns success.
C37_OneWinner ==
    [][ /\ Cardinality(WithNonce(messages')) <= 1
        /\ \A t \in SendTasks :
              Returns(t) /\ last'.res = Ok =>
                /\ WithNonce(messages) = {}
                /\ WithNonce(messages') = {TaskMessageId[t]}
                /\ \A u \in SendTasks \ {t} :
                      pending[u].op = "done" => pending[u].st.res # Ok ]_vars

\* a request stored its message while another request with the same nonce,
\* refused by the guard, was still in flight, and a third had already failed
C37_Witness ==
    /\ Sent /\ last.res = Ok
    /\ WithNonce(messages) = {last.message.id}
    /\ \E u \in SendTasks :
          pending[u].op = "consumed" /\ pending[u].st.res = Err("InvalidOperation")
    /\ \E u \in SendTasks :
          pending[u].op = "done" /\ pending[u].st.res = Err("InvalidOperation")

\* the pipeline run in two parts is the pipeline
TwoPartsAgree ==
    Sent => \A rq \in {last.rq} :
        Finish(Intake(rq, last.message.id, last.before.messages, last.before.nonces,
                      last.before.uploads),
               rq, last.before.messages, last.before.uploads)
          = create_from_api(rq, last.message.id, last.before.messages,
                            last.before.nonces, last.before.uploads)

---------------------------------------------------------------------------
(* Properties of the reaction whitelist *)

\* the emoji a message's policy lets through when it restricts reactions
Whitelist(m) ==
    IF IsSome(m.interactions.reactions) THEN Unwrap(m.interactions.reactions) ELSE {}

\* C38: on a message that restricts reactions, every emoji key of the stored
\* reactions is on the whitelist, whatever adds, removes and clears ran; on a
\* message that does not, an add is refused only for capacity or for an
\* unusable emoji, on the whitelist or not.
C38_WhitelistKept ==
    \A id \in DOMAIN messages :
        IF messages[id].interactions.restrict_reactions
        THEN DOMAIN messages[id].reactions \subseteq Whitelist(messages[id])
        ELSE Reacted /\ last.rq.id = id /\ last.res # Ok => OverCapacity \/ Unusable

\* a restricting message that carries an emoji of its whitelist and has room
\* for more refused a usable emoji outside of the whitelist
C38_Witness ==
    /\ messages[1].interactions.restrict_reactions
    /\ DOMAIN messages[1].reactions # {} /\ ~OverCapacity
    /\ Whitelist(messages[1]) # {}
    /\ Reacted /\ last.rq.emoji \notin Whitelist(messages[1])
    /\ last.rq.emoji \in Emojis
    /\ last.res = Err("InvalidOperation")

\* a message with a whitelist and no restriction took an emoji outside of it
OffListAccepted ==
    /\ ~messages[1].interactions.restrict_reactions
    /\ Whitelist(messages[1]) # {}
    /\ Reacted /\ last.res = Ok
    /\ last.rq.emoji \notin Whitelist(messages[1])

---------------------------------------------------------------------------
(* Properties of the mention bits of the raw flags *)

\* the state of the last call after the size gate, the guard and the emptiness check
AfterEmpty ==
    UpToEmpty(last.rq, last.message.id, last.before.messages, last.before.nonces,
              last.before.uploads)

\* the raw flags of the request have the bit, read as the flag codec reads it
RawBit(rq, bit) == IsSome(rq.flags) /\ (Unwrap(rq.flags) \div Pow2(bit)) % 2 = 1

C39_Case ==
    /\ Sent /\ last.rq.allow_mentions
    /\ IsSome(last.rq.flags) /\ Unwrap(last.rq.flags) <= 7
    /\ (RawBit(last.rq, MentionsEveryone) \/ RawBit(last.rq, MentionsOnline))

\* C39: with mentions allowed and raw flags of at most 7 that set the
\* MentionsEveryone or the MentionsOnline bit, a user who is not a bot is never
\* stored and gets IsNotBot, also when both bits are set; any other sender who
\* sets both bits is never stored and gets InvalidFlagValue; the error is the
\* stated one once the gates before the flags have passed.
C39_MentionBits ==
    C39_Case =>
        /\ last.rq.author = "User" =>
              /\ last.res # Ok /\ NothingStored
              /\ AfterEmpty.res = Ok => last.res = Err("IsNotBot")
        /\ (/\ last.rq.author # "User"
            /\ RawBit(last.rq, MentionsEveryone)
            /\ RawBit(last.rq, MentionsOnline)) =>
              /\ last.res # Ok /\ NothingStored
              /\ AfterEmpty.res = Ok => last.res = Err("InvalidFlagValue")

\* a user who is not a bot set both bits and got IsNotBot
C39_Witness ==
    /\ C39_Case /\ last.rq.author = "User"
    /\ RawBit(last.rq, MentionsEveryone) /\ RawBit(last.rq, MentionsOnline)
    /\ last.res = Err("IsNotBot")

\* a bot set both bits and got InvalidFlagValue
BotSetBoth ==
    /\ C39_Case /\ last.rq.author = "Bot"
    /\ last.res = Err("InvalidFlagValue")

(* Properties of a caller who may not mention *)

C40_Case == Sent /\ ~last.rq.allow_mentions

\* what the parser finds in the text of the request
Parsed(rq) ==
    IF IsSome(rq.content) THEN parse_message(Unwrap(rq.content))
    ELSE [user_mentions |-> {}, role_mentions |-> {},
          mentions_everyone |-> FALSE, mentions_online |-> FALSE]

\* a reply intent of the request asks to mention the author of its target
AsksReplyMention(rq) ==
    IsSome(rq.replies)
    /\ \E i \in 1..Len(Unwrap(rq.replies)) : Unwrap(rq.replies)[i].mention

\* C40: when the caller may not mention, the MentionsEveryone and MentionsOnline
\* bits of the raw flags cause neither IsNotBot nor InvalidFlagValue, a finalized
\* message has one of the two bits only if the text itself carries the token,
\* and the reply stage adds no user to the mentions, so that a finalized message
\* mentions only users named in the text.
C40_NoMentionsAllowed ==
    C40_Case =>
        /\ last.res # Err("IsNotBot") /\ last.res # Err("InvalidFlagValue")
        /\ Finalized =>
              /\ HasBit(last.message, MentionsEveryone) => Parsed(last.rq).mentions_everyone
              /\ HasBit(last.message, MentionsOnline) => Parsed(last.rq).mentions_online
              /\ MentionSet(last.message) \subseteq Parsed(last.rq).user_mentions
        /\ AfterMassMention.res = Ok =>
              AfterReplies.user_mentions = AfterMassMention.user_mentions

\* a message was stored for a caller who may not mention and whose raw flags set
\* both mention bits: the message has neither bit
C40_Witness ==
    /\ C40_Case /\ Stored
    /\ RawBit(last.rq, MentionsEveryone) /\ RawBit(last.rq, MentionsOnline)
    /\ ~HasBit(last.message, MentionsEveryone) /\ ~HasBit(last.message, MentionsOnline)

\* a message was stored for a caller who may not mention and who replied, asking
\* to mention the author, to a message that exists: the author is not mentioned
ReplyAuthorLeftOut ==
    /\ C40_Case /\ Stored /\ AsksReplyMention(last.rq)
    /\ IsSome(last.message.replies)
    /\ \E id \in Unwrap(last.message.replies) :
          last.before.messages[id].author \notin MentionSet(last.message)

====
